---- MODULE Spec2Model ----
(***************************************************************************)
(* A model of the osTicket REST facade (src/main.py, src/utils.py): the    *)
(* ticket creation transaction with its sequence-based number generator,   *)
(* and the listing engine (filters, pagination, continuation links).       *)
(*                                                                         *)
(* Texts (masks, ticket numbers, query values, stored attribute values)    *)
(* are sequences of one-character strings, so that replace, split, zfill   *)
(* and LIKE are computed character by character as the code computes them. *)
(* The store is a transactional SQL store (InnoDB semantics): a            *)
(* transaction's writes are private until commit, an UPDATE takes a row    *)
(* lock held to the end of the transaction, AUTO_INCREMENT counters and    *)
(* the per-connection LAST_INSERT_ID are not transactional.                *)
(***************************************************************************)
EXTENDS Integers, Sequences, FiniteSets, TLC

VARIABLES
    ost_config,         \* committed: key -> value rows of ost_config
    ost_sequence,       \* committed: id -> [name, next]
    ost_user,           \* committed: set of [id, name, created, updated]
    ost_ticket,         \* committed: set of ticket rows
    ost_thread,         \* committed: set of [id, object_id, object_type]
    ost_thread_entry,   \* committed: set of [id, thread_id, type]
    auto_inc,           \* AUTO_INCREMENT counters of ost_ticket, ost_thread, ost_thread_entry
    tx,                 \* per connection: the open transaction's private writes
    conn_last_id,       \* per connection: the value LAST_INSERT_ID() returns
    pc,                 \* per connection: position inside create_ticket
    loc,                \* per connection: create_ticket's local variables
    calls_started,      \* number of create_ticket calls begun so far
    log,                \* finished create_ticket calls, in order of completion
    clock,              \* the current date: an index into Dates
    ost_user_email,     \* committed: set of [id, user_id, address]
    ost_ticket_status,  \* committed: set of [id, name]
    ost_form_field,     \* committed: set of [id, name]
    ost_form_entry,     \* committed: set of [id, object_id, object_type]
    ost_form_entry_values, \* committed: set of [entry_id, field_id, value]
    dialect,            \* the SQL server the deployment runs on
    request,            \* the request being served: [base, path_id, query]
    response,           \* what the route answered, after response_model validation
    returned,           \* what the listing or lookup handler returned or raised
    walk,               \* the pages seen since the client started following links
    ost_api_key,        \* committed: set of [id, apikey, isactive, ipaddr]
    auth,               \* the request's X-API-Key and client address, and verify_token's verdict
    closes,             \* the ticket ids close_ticket has returned {"status": "closed"} for
    ost_file,           \* committed: set of [id, name]
    ost_file_chunk,     \* committed: set of [file_id, chunk_id]
    ost_attachment,     \* committed: set of [id, object_id, file_id]
    att,                \* add_attachment: its position, locals and its transaction's writes
    isolation,          \* the isolation level the server runs transactions at
    view,               \* list_tickets between its count query and its page query
    held                \* the handlers that finished without closing their connection

storeVars  == <<ost_config, ost_sequence, ost_user, ost_ticket, ost_thread, ost_thread_entry>>
createVars == <<auto_inc, tx, conn_last_id, pc, loc, calls_started, log>>
readVars   == <<ost_user_email, ost_ticket_status, ost_form_field, ost_form_entry,
                ost_form_entry_values, dialect, ost_api_key>>
attachVars == <<ost_file, ost_file_chunk, ost_attachment, att>>
formVars   == <<readVars, attachVars, closes, isolation, view, held>>
listVars   == <<request, response, returned, walk, auth>>
vars       == <<storeVars, createVars, clock, formVars, listVars>>

(***************************************************************************)
(* Bounds of the model.                                                    *)
(***************************************************************************)
NumConns == 2   \* pooled connections, each serving one request at a time
MaxCalls == 2   \* create_ticket calls begun in one behaviour

Conns == 1..NumConns

(***************************************************************************)
(* Text helpers: Python's str.replace, str.count, str.zfill and str(int).  *)
(***************************************************************************)
MatchAt(s, i, sub) ==
    /\ i + Len(sub) - 1 <= Len(s)
    /\ SubSeq(s, i, i + Len(sub) - 1) = sub

Contains(s, sub) == \E i \in 1..(Len(s) + 1) : MatchAt(s, i, sub)

RECURSIVE ReplaceFrom(_, _, _, _)
ReplaceFrom(s, i, old, new) ==
    IF i > Len(s) THEN <<>>
    ELSE IF MatchAt(s, i, old) THEN new \o ReplaceFrom(s, i + Len(old), old, new)
    ELSE <<s[i]>> \o ReplaceFrom(s, i + 1, old, new)

\* s.replace(old, new) for a non-empty old: leftmost, non-overlapping occurrences.
Replace(s, old, new) == ReplaceFrom(s, 1, old, new)

CountChar(s, c) == Cardinality({i \in 1..Len(s) : s[i] = c})

Repeat(c, k) == [i \in 1..k |-> c]

DigitChar(d) == <<"0", "1", "2", "3", "4", "5", "6", "7", "8", "9">>[d + 1]

RECURSIVE IntToText(_)
IntToText(n) ==
    IF n < 10 THEN <<DigitChar(n)>>
    ELSE IntToText(n \div 10) \o <<DigitChar(n % 10)>>

ZFill(t, w) == IF Len(t) >= w THEN t ELSE Repeat("0", w - Len(t)) \o t

(***************************************************************************)
(* _generate_ticket_number, the formatting half: the mask with the date    *)
(* tokens, then the run of '#', then the %SEQ marker substituted.          *)
(***************************************************************************)
DateReplacements(now) ==
    << <<<<"%", "y">>, now.y>>, <<<<"%", "Y">>, now.Y>>,
       <<<<"%", "m">>, now.m>>, <<<<"%", "d">>, now.d>> >>

RECURSIVE ApplyReplacements(_, _, _)
ApplyReplacements(mask, reps, i) ==
    IF i > Len(reps) THEN mask
    ELSE ApplyReplacements(Replace(mask, reps[i][1], reps[i][2]), reps, i + 1)

SubstituteHashes(mask, next_seq) ==
    IF Contains(mask, <<"#">>)
    THEN LET num_hashes == CountChar(mask, "#")
         IN  Replace(mask, Repeat("#", num_hashes), ZFill(IntToText(next_seq), num_hashes))
    ELSE mask

SeqMarker == <<"%", "S", "E", "Q">>

SubstituteSeq_Padded(mask, next_seq) ==
    IF Contains(mask, SeqMarker)
    THEN Replace(mask, SeqMarker, ZFill(IntToText(next_seq), 6)) ELSE mask

SubstituteSeq(mask, next_seq) ==
    IF Contains(mask, SeqMarker) THEN Replace(mask, SeqMarker, IntToText(next_seq)) ELSE mask

FormatNumber(number_format, next_seq, now) ==
    SubstituteSeq(
        SubstituteHashes(ApplyReplacements(number_format, DateReplacements(now), 1), next_seq),
        next_seq)

(***************************************************************************)
(* The clock: datetime.now() and NOW() read the current date.              *)
(***************************************************************************)
Dates ==
    << [y |-> <<"2", "6">>, Y |-> <<"2", "0", "2", "6">>, m |-> <<"1", "0">>, d |-> <<"3", "1">>],
       [y |-> <<"2", "6">>, Y |-> <<"2", "0", "2", "6">>, m |-> <<"1", "1">>, d |-> <<"0", "1">>] >>

Tick ==
    /\ clock < Len(Dates)
    /\ clock' = clock + 1
    /\ UNCHANGED <<storeVars, createVars, formVars, listVars>>

(***************************************************************************)
(* The store as create_ticket meets it: the numbering configuration and    *)
(* the sequence rows of a deployment. An absent ost_config row is <<>>.    *)
(***************************************************************************)
CreateStores ==
    { \* the store of test_create_and_get_ticket: no configuration, one sequence
      [config   |-> [ticket_sequence_id |-> <<>>, ticket_number_format |-> <<>>],
       sequence |-> (1 :> [name |-> "ticket_number", next |-> 0])],
      \* a configured sequence and a mask with a run of '#'
      [config   |-> [ticket_sequence_id |-> <<2>>,
                     ticket_number_format |-> << <<"P", "-", "#", "#">> >>],
       sequence |-> (1 :> [name |-> "ticket_number", next |-> 0]
                     @@ 2 :> [name |-> "General Tickets", next |-> 8])],
      \* a mask with a date token and the bare marker
      [config   |-> [ticket_sequence_id |-> <<1>>,
                     ticket_number_format |-> << <<"%", "d", "-", "%", "S", "E", "Q">> >>],
       sequence |-> (1 :> [name |-> "ticket_number", next |-> 0])],
      \* a mask that embeds no counter
      [config   |-> [ticket_sequence_id |-> <<>>,
                     ticket_number_format |-> << <<"T", "K">> >>],
       sequence |-> (1 :> [name |-> "ticket_number", next |-> 0])],
      \* the configured sequence id has no row and no row is named ticket_number
      [config   |-> [ticket_sequence_id |-> <<7>>, ticket_number_format |-> <<>>],
       sequence |-> (2 :> [name |-> "General Tickets", next |-> 8])] }

ExistingUser == [id |-> 1, name |-> "Test User", created |-> 1, updated |-> 1]

\* The bodies create_ticket is called with (TicketCreate): an existing and a
\* non-existent owner, topic_id and dept_id given or left out (<<>> is None).
TicketInputs ==
    { [user_id |-> 1,  topic_id |-> <<>>,  dept_id |-> <<2>>],
      [user_id |-> 99, topic_id |-> <<1>>, dept_id |-> <<1>>] }

NoRequest  == [base |-> "", path_id |-> 0, query |-> <<>>]
NoResponse == [status |-> 0]
NoWalk     == [origin |-> NoRequest, items |-> <<>>, pages |-> 0, stores |-> <<>>]

(***************************************************************************)
(* verify_token: the dependency every protected endpoint declares. FastAPI *)
(* calls the endpoint's handler only when the dependency returned without  *)
(* raising. auth.status is 0 until verify_token has run, then 200 (it      *)
(* returned) or the status of the HTTPException it raised.                 *)
(***************************************************************************)
\* the rows of ost_api_key the security tests insert
ApiKeys ==
    { [id |-> 1, apikey |-> "user-get-key", isactive |-> 1, ipaddr |-> "testclient"],
      [id |-> 2, apikey |-> "my-inactive-key", isactive |-> 0, ipaddr |-> "testclient"],
      [id |-> 3, apikey |-> "my-ip-restricted-key", isactive |-> 1, ipaddr |-> "192.168.1.1"] }

\* the X-API-Key values a request may carry and the addresses it may come from
SentKeys == {k.apikey : k \in ApiKeys} \cup {"this-is-a-fake-key"}
Clients == {"testclient", "192.168.1.1"}

Credentials(x_api_key, client) ==
    [x_api_key |-> x_api_key, client |-> client, status |-> 0, detail |-> ""]

\* SELECT id, apikey, isactive FROM ost_api_key WHERE apikey = :apikey
ApiKeyRows(x_api_key) == {k \in ost_api_key : k.apikey = x_api_key}

Verdict_ActiveUnchecked(x_api_key) ==
    IF ApiKeyRows(x_api_key) = {} THEN [status |-> 401, detail |-> "Invalid API Key"]
    ELSE [status |-> 200, detail |-> ""]

\* if not result: 401; if not result["isactive"]: 403; else the dependency returns
Verdict(x_api_key) ==
    IF ApiKeyRows(x_api_key) = {} THEN [status |-> 401, detail |-> "Invalid API Key"]
    ELSE IF (CHOOSE k \in ApiKeyRows(x_api_key) : TRUE).isactive = 0
         THEN [status |-> 403, detail |-> "API Key is not active"]
    ELSE [status |-> 200, detail |-> ""]

\* a request whose key verify_token has accepted
Verified ==
    [x_api_key |-> "user-get-key", client |-> "testclient", status |-> 200, detail |-> ""]

\* Depends(verify_token) returned: the handler may run
Authorized == auth.status = 200

EmptyTx == [seq |-> <<>>, tickets |-> {}, threads |-> {}, entries |-> {}]

\* add_attachment is not running: no locals, no writes in its transaction
NoAttach ==
    [pc |-> "idle", conn |-> 0, fid |-> 0, files |-> {}, chunks |-> {}, attachments |-> {},
     file_auto_inc |-> 0, attachment_auto_inc |-> 0]

\* list_tickets is not between its two queries
NoView == [phase |-> "none"]

\* no attachment stored, no attachment or split listing call running, no
\* connection left open, and the server's default isolation level
InitElsewhere ==
    /\ closes = {}
    /\ ost_file = {}
    /\ ost_file_chunk = {}
    /\ ost_attachment = {}
    /\ att = NoAttach
    /\ isolation = "REPEATABLE READ"
    /\ view = NoView
    /\ held = {}
    /\ returned = NoResponse

InitLoc ==
    [call |-> 0, user_id |-> 0, topic_id |-> <<>>, dept_id |-> <<>>,
     sequence_id |-> 0, number_format |-> <<>>, seq_name |-> "",
     next_seq |-> 0, t_num |-> <<>>, tid |-> 0, thid |-> 0]

Init ==
    /\ \E st \in CreateStores :
          /\ ost_config = st.config
          /\ ost_sequence = st.sequence
    /\ ost_user = {ExistingUser}
    /\ ost_ticket = {}
    /\ ost_thread = {}
    /\ ost_thread_entry = {}
    /\ auto_inc = [ticket |-> 0, thread |-> 0, entry |-> 0]
    /\ tx = [p \in Conns |-> EmptyTx]
    /\ conn_last_id = [p \in Conns |-> 0]
    /\ pc = [p \in Conns |-> "idle"]
    /\ loc = [p \in Conns |-> InitLoc]
    /\ calls_started = 0
    /\ log = <<>>
    /\ clock = 1
    /\ ost_user_email = {[id |-> 1, user_id |-> 1, address |-> <<"u", "1">>]}
    /\ ost_ticket_status = {[id |-> 1, name |-> "Open"]}
    /\ ost_form_field = {}
    /\ ost_form_entry = {}
    /\ ost_form_entry_values = {}
    /\ dialect = "mariadb"
    /\ request = NoRequest
    /\ response = NoResponse
    /\ walk = NoWalk
    /\ ost_api_key = ApiKeys
    /\ auth = Verified
    /\ InitElsewhere

(***************************************************************************)
(* The store operations create_ticket and _generate_ticket_number issue.   *)
(***************************************************************************)
\* SELECT id FROM ost_user WHERE id = :user_id
UserExists(user_id) == \E u \in ost_user : u.id = user_id

\* config.get(key, default) over the rows read from ost_config
ConfigGet(key, default) == IF ost_config[key] = <<>> THEN default ELSE ost_config[key][1]

\* SELECT name FROM ost_sequence WHERE id = :id, scalar_one_or_none() or 'ticket_number'
SequenceName(sequence_id) ==
    IF sequence_id \in DOMAIN ost_sequence /\ ost_sequence[sequence_id].name # ""
    THEN ost_sequence[sequence_id].name
    ELSE "ticket_number"

\* the rows UPDATE ost_sequence ... WHERE name = :seq_name touches
SequenceRows(seq_name) == {i \in DOMAIN ost_sequence : ost_sequence[i].name = seq_name}

SequenceRowsFree_NoLock(p, rows) == TRUE

\* The UPDATE waits while another transaction holds the lock of a row it touches.
SequenceRowsFree(p, rows) == \A q \in Conns \ {p} : DOMAIN tx[q].seq \cap rows = {}

\* SET next = LAST_INSERT_ID(next + 1): the new value of each touched row
AdvancedRows(rows) == [i \in rows |-> ost_sequence[i].next + 1]

MaxOf(S) == CHOOSE x \in S : \A y \in S : y <= x

CommittedSequence_Lost(t) == ost_sequence

\* COMMIT: the transaction's writes become the committed store.
CommittedSequence(t) ==
    [i \in DOMAIN ost_sequence |->
        IF i \in DOMAIN t.seq
        THEN [name |-> ost_sequence[i].name, next |-> t.seq[i]]
        ELSE ost_sequence[i]]

InTransaction(p) ==
    pc[p] \in {"advance", "insert_ticket", "insert_thread", "insert_entry", "commit"}

\* What a finished call is remembered by: its outcome, the number and ticket id
\* it returned, the counter value it read, the sequence rows it advanced, and
\* whether another call's transaction was open when it finished.
LogEntry(p, status, number, ticket_id) ==
    [call |-> loc[p].call, conn |-> p, status |-> status, number |-> number,
     next_seq |-> loc[p].next_seq, ticket_id |-> ticket_id, rows |-> DOMAIN tx[p].seq,
     concurrent |-> \E q \in Conns \ {p} : InTransaction(q)]

(***************************************************************************)
(* create_ticket, one action per store statement.                          *)
(***************************************************************************)
create_ticket_Validate_Late(p, ticket) ==
    /\ pc[p] = "idle"
    /\ att.conn # p
    /\ calls_started < MaxCalls
    /\ calls_started' = calls_started + 1
    /\ auto_inc' = [auto_inc EXCEPT !.ticket = @ + 1]
    /\ log' = Append(log, [call |-> calls_started + 1, conn |-> p,
                           status |-> IF UserExists(ticket.user_id) THEN 500 ELSE 400,
                           number |-> <<>>, next_seq |-> 0, ticket_id |-> 0, rows |-> {},
                           concurrent |-> \E q \in Conns \ {p} : InTransaction(q)])
    /\ UNCHANGED <<storeVars, tx, conn_last_id, pc, loc, clock, formVars, listVars>>

\* engine.connect(), conn.begin() and the owner check (400 when the owner is
\* missing); then _generate_ticket_number reads the configuration and the
\* sequence name. These statements read rows no operation of the model writes.
\* The pool hands out a connection no running call has checked out.
create_ticket_Validate(p, ticket) ==
    /\ Authorized
    /\ pc[p] = "idle"
    /\ att.conn # p
    /\ calls_started < MaxCalls
    /\ calls_started' = calls_started + 1
    /\ IF UserExists(ticket.user_id)
       THEN LET sequence_id == ConfigGet("ticket_sequence_id", 1)
                number_format == ConfigGet("ticket_number_format", SeqMarker)
            IN  /\ pc' = [pc EXCEPT ![p] = "advance"]
                /\ loc' = [loc EXCEPT ![p] =
                             [InitLoc EXCEPT !.call = calls_started + 1,
                                             !.user_id = ticket.user_id,
                                             !.topic_id = ticket.topic_id,
                                             !.dept_id = ticket.dept_id,
                                             !.sequence_id = sequence_id,
                                             !.number_format = number_format,
                                             !.seq_name = SequenceName(sequence_id)]]
                /\ log' = log
       ELSE /\ log' = Append(log, [call |-> calls_started + 1, conn |-> p, status |-> 400,
                                    number |-> <<>>, next_seq |-> 0, ticket_id |-> 0,
                                    rows |-> {},
                                    concurrent |-> \E q \in Conns \ {p} : InTransaction(q)])
            /\ UNCHANGED <<pc, loc>>
    /\ UNCHANGED <<storeVars, auto_inc, tx, conn_last_id, clock, formVars, listVars>>

\* UPDATE ost_sequence SET next = LAST_INSERT_ID(next + 1) WHERE name = :seq_name,
\* then next_seq = SELECT LAST_INSERT_ID() on the same connection, and the mask
\* is formatted with today's date.
generate_ticket_number(p) ==
    /\ pc[p] = "advance"
    /\ LET rows == SequenceRows(loc[p].seq_name)
           next_seq == IF rows = {} THEN conn_last_id[p] ELSE AdvancedRows(rows)[MaxOf(rows)]
       IN  /\ SequenceRowsFree(p, rows)
           /\ tx' = [tx EXCEPT ![p].seq = AdvancedRows(rows)]
           /\ conn_last_id' = [conn_last_id EXCEPT ![p] = next_seq]
           /\ loc' = [loc EXCEPT ![p].next_seq = next_seq,
                                  ![p].t_num = FormatNumber(loc[p].number_format, next_seq,
                                                            Dates[clock])]
    /\ pc' = [pc EXCEPT ![p] = "insert_ticket"]
    /\ UNCHANGED <<storeVars, auto_inc, calls_started, log, clock, formVars, listVars>>

OrDefault(opt, default) == IF opt = <<>> THEN default ELSE opt[1]

\* INSERT INTO ost_ticket ...; tid = res.lastrowid
create_ticket_InsertTicket(p) ==
    /\ pc[p] = "insert_ticket"
    /\ LET tid == auto_inc.ticket + 1
           row == [ticket_id |-> tid, number |-> loc[p].t_num, user_id |-> loc[p].user_id,
                   dept_id |-> OrDefault(loc[p].dept_id, 1),
                   topic_id |-> OrDefault(loc[p].topic_id, 1),
                   status_id |-> 1, created |-> clock, updated |-> clock,
                   closed |-> <<>>]
       IN  /\ auto_inc' = [auto_inc EXCEPT !.ticket = tid]
           /\ tx' = [tx EXCEPT ![p].tickets = @ \cup {row}]
           /\ conn_last_id' = [conn_last_id EXCEPT ![p] = tid]
           /\ loc' = [loc EXCEPT ![p].tid = tid]
    /\ pc' = [pc EXCEPT ![p] = "insert_thread"]
    /\ UNCHANGED <<storeVars, calls_started, log, clock, formVars, listVars>>

\* INSERT INTO ost_thread ...; thid = SELECT LAST_INSERT_ID()
create_ticket_InsertThread(p) ==
    /\ pc[p] = "insert_thread"
    /\ LET thid == auto_inc.thread + 1
       IN  /\ auto_inc' = [auto_inc EXCEPT !.thread = thid]
           /\ tx' = [tx EXCEPT ![p].threads =
                        @ \cup {[id |-> thid, object_id |-> loc[p].tid, object_type |-> "T"]}]
           /\ conn_last_id' = [conn_last_id EXCEPT ![p] = thid]
           /\ loc' = [loc EXCEPT ![p].thid = thid]
    /\ pc' = [pc EXCEPT ![p] = "insert_entry"]
    /\ UNCHANGED <<storeVars, calls_started, log, clock, formVars, listVars>>

\* INSERT INTO ost_thread_entry (thread_id, type, ...) VALUES (:thid, 'M', ...)
create_ticket_InsertEntry(p) ==
    /\ pc[p] = "insert_entry"
    /\ LET eid == auto_inc.entry + 1
       IN  /\ auto_inc' = [auto_inc EXCEPT !.entry = eid]
           /\ tx' = [tx EXCEPT ![p].entries =
                        @ \cup {[id |-> eid, thread_id |-> loc[p].thid, type |-> "M"]}]
           /\ conn_last_id' = [conn_last_id EXCEPT ![p] = eid]
    /\ pc' = [pc EXCEPT ![p] = "commit"]
    /\ UNCHANGED <<storeVars, loc, calls_started, log, clock, formVars, listVars>>

\* return {...}: the with-block of conn.begin() commits and the connection is released.
create_ticket_Commit(p) ==
    /\ pc[p] = "commit"
    /\ ost_sequence' = CommittedSequence(tx[p])
    /\ ost_ticket' = ost_ticket \cup tx[p].tickets
    /\ ost_thread' = ost_thread \cup tx[p].threads
    /\ ost_thread_entry' = ost_thread_entry \cup tx[p].entries
    /\ log' = Append(log, LogEntry(p, 200, loc[p].t_num, loc[p].tid))
    /\ tx' = [tx EXCEPT ![p] = EmptyTx]
    /\ pc' = [pc EXCEPT ![p] = "idle"]
    /\ loc' = [loc EXCEPT ![p] = InitLoc]
    /\ UNCHANGED <<ost_config, ost_user, auto_inc, conn_last_id, calls_started, clock, formVars, listVars>>

Rollback_Kept(t) == t

\* trans.rollback(): the transaction's writes are discarded, its locks released.
Rollback(t) == EmptyTx

\* engine.connect() or conn.begin() raises, or the owner SELECT or a read of
\* _generate_ticket_number does: the call ends with HTTP 500 before its
\* transaction has written anything
create_ticket_Fail_Early(p) ==
    /\ Authorized
    /\ pc[p] = "idle"
    /\ att.conn # p
    /\ calls_started < MaxCalls
    /\ calls_started' = calls_started + 1
    /\ log' = Append(log, [call |-> calls_started + 1, conn |-> p, status |-> 500,
                             number |-> <<>>, next_seq |-> 0, ticket_id |-> 0,
                             rows |-> {},
                             concurrent |-> \E q \in Conns \ {p} : InTransaction(q)])
    /\ UNCHANGED <<storeVars, auto_inc, tx, conn_last_id, pc, loc, clock, formVars, listVars>>

create_ticket_Fail_Partial(p) ==
    \/ create_ticket_Fail_Early(p)
    \/ /\ InTransaction(p)
       /\ log' = Append(log, LogEntry(p, 500, <<>>, 0))
       /\ ost_sequence' = CommittedSequence(tx[p])
       /\ ost_ticket' = ost_ticket \cup tx[p].tickets
       /\ ost_thread' = ost_thread \cup tx[p].threads
       /\ ost_thread_entry' = ost_thread_entry \cup tx[p].entries
       /\ tx' = [tx EXCEPT ![p] = EmptyTx]
       /\ pc' = [pc EXCEPT ![p] = "idle"]
       /\ loc' = [loc EXCEPT ![p] = InitLoc]
       /\ UNCHANGED <<ost_config, ost_user, auto_inc, conn_last_id, calls_started, clock,
                      formVars, listVars>>

\* A store statement raises (connectivity loss, constraint violation, lock wait
\* timeout): except Exception -> trans.rollback(), HTTP 500.
create_ticket_Fail(p) ==
    \/ create_ticket_Fail_Early(p)
    \/ /\ InTransaction(p)
       /\ log' = Append(log, LogEntry(p, 500, <<>>, 0))
       /\ tx' = [tx EXCEPT ![p] = Rollback(tx[p])]
       /\ pc' = [pc EXCEPT ![p] = "idle"]
       /\ loc' = [loc EXCEPT ![p] = InitLoc]
       /\ UNCHANGED <<storeVars, auto_inc, conn_last_id, calls_started, clock, formVars,
                      listVars>>

Next ==
    \/ Tick
    \/ \E p \in Conns, ticket \in TicketInputs : create_ticket_Validate(p, ticket)
    \/ \E p \in Conns : generate_ticket_number(p)
    \/ \E p \in Conns : create_ticket_InsertTicket(p)
    \/ \E p \in Conns : create_ticket_InsertThread(p)
    \/ \E p \in Conns : create_ticket_InsertEntry(p)
    \/ \E p \in Conns : create_ticket_Commit(p)
    \/ \E p \in Conns : create_ticket_Fail(p)

Spec == Init /\ [][Next]_vars

(***************************************************************************)
(* Properties of ticket creation.                                          *)
(***************************************************************************)
NumberFormat == ConfigGet("ticket_number_format", SeqMarker)

\* The mask embeds the counter: it holds the bare marker, or its '#' are one run.
MaskEmbedsCounter ==
    \/ Contains(NumberFormat, SeqMarker)
    \/ /\ Contains(NumberFormat, <<"#">>)
       /\ Contains(NumberFormat, Repeat("#", CountChar(NumberFormat, "#")))

Succeeded == {k \in 1..Len(log) : log[k].status = 200}

\* C1: two create_ticket calls that succeed after advancing the same sequence
\* row never read the same counter value, and with a mask that embeds the
\* counter they never return the same ticket number, in any interleaving.
C1_DistinctNumbers ==
    \A i, j \in Succeeded :
        (i # j /\ log[i].rows # {} /\ log[i].rows = log[j].rows)
            => /\ log[i].next_seq # log[j].next_seq
               /\ MaskEmbedsCounter => log[i].number # log[j].number

\* Two calls on different connections succeeded on the same sequence row with a
\* counter-embedding mask, and the second's transaction was open when the first
\* committed.
C1_Witness ==
    \E i, j \in Succeeded :
        /\ i < j
        /\ log[i].conn # log[j].conn
        /\ log[i].concurrent
        /\ log[i].rows # {} /\ log[i].rows = log[j].rows
        /\ MaskEmbedsCounter

\* C2: in every committed store state every ticket row has its thread row
\* (object_type 'T', object_id = ticket id), that thread has a thread entry, and
\* the row carries the number of a call that returned it.
C2_TicketHasThread ==
    \A t \in ost_ticket :
        /\ \E th \in ost_thread :
              /\ th.object_type = "T"
              /\ th.object_id = t.ticket_id
              /\ \E e \in ost_thread_entry : e.thread_id = th.id /\ e.type = "M"
        /\ \E k \in Succeeded : log[k].ticket_id = t.ticket_id /\ log[k].number = t.number

\* A ticket is committed after another call failed having inserted its ticket row.
C2_Witness ==
    /\ ost_ticket # {}
    /\ \E k \in 1..Len(log) : log[k].status = 500
    /\ auto_inc.ticket > Cardinality(ost_ticket)

\* C3: the step that rejects a call for a missing owner (400) leaves the
\* committed store, every transaction's writes and locks, and the
\* AUTO_INCREMENT counters as they were: nothing was written before it.
C3_RejectedBeforeWrite ==
    [][(Len(log') = Len(log) + 1 /\ log'[Len(log')].status = 400)
          => UNCHANGED <<storeVars, formVars, tx, auto_inc, conn_last_id>>]_vars

\* A call was rejected while another call's advance of the counter was pending.
C3_Witness ==
    \E k \in 1..Len(log) :
        /\ log[k].status = 400
        /\ log[k].concurrent
        /\ \E p \in Conns : tx[p].seq # <<>>

\* the store the behaviour started from
InitialStore ==
    CHOOSE st \in CreateStores :
        st.config = ost_config /\ DOMAIN st.sequence = DOMAIN ost_sequence

\* the sequence rows create_ticket advances under the configuration
ResolvedRows == SequenceRows(SequenceName(ConfigGet("ticket_sequence_id", 1)))

\* C4: the committed next of the resolved sequence row is its initial value plus
\* the number of calls that returned a ticket number, and plus the number of
\* committed tickets: the advance commits with the ticket insert, one per call.
C4_AdvancedOncePerCall ==
    \A i \in DOMAIN ost_sequence :
        IF i \in ResolvedRows
        THEN /\ ost_sequence[i].next = InitialStore.sequence[i].next + Cardinality(Succeeded)
             /\ ost_sequence[i].next = InitialStore.sequence[i].next + Cardinality(ost_ticket)
             /\ \A k \in Succeeded : log[k].rows = ResolvedRows
        ELSE ost_sequence[i].next = InitialStore.sequence[i].next

\* Every call of the behaviour returned a number, on an existing sequence row.
C4_Witness ==
    /\ ResolvedRows # {}
    /\ Cardinality(Succeeded) = MaxCalls

(***************************************************************************)
(* The listing engine. A request is a base URL and the query parameters in *)
(* the order they were sent (a multi-dict: a key may repeat); parameter    *)
(* names and field names are atomic, parameter values are texts.           *)
(***************************************************************************)
\* request.query_params.keys(): the distinct keys, in order of first occurrence
QueryKeys(q) ==
    LET first == {i \in 1..Len(q) : \A j \in 1..(i - 1) : q[j].k # q[i].k}
        Nth[n \in 1..Cardinality(first)] ==
            CHOOSE i \in first : Cardinality({j \in first : j < i}) = n - 1
    IN  [n \in 1..Cardinality(first) |-> q[Nth[n]].k]

HasKey(q, key) == \E i \in 1..Len(q) : q[i].k = key

\* request.query_params.getlist(key): every value sent for the key, in order
GetList(q, key) ==
    LET F[i \in 0..Len(q)] ==
            IF i = 0 THEN <<>>
            ELSE IF q[i].k = key THEN Append(F[i - 1], q[i].v) ELSE F[i - 1]
    IN  F[Len(q)]

\* request.query_params[key]: the last value sent for the key
GetLast(q, key) == LET l == GetList(q, key) IN l[Len(l)]

\* dict(request.query_params): one entry per key, holding the key's last value
DictOfQuery(q) ==
    LET keys == QueryKeys(q)
    IN  [n \in 1..Len(keys) |-> [k |-> keys[n], v |-> GetLast(q, keys[n])]]

\* d[key] = value on a dict: in place when the key is there, appended otherwise
DictSet(d, key, value) ==
    IF HasKey(d, key)
    THEN [n \in 1..Len(d) |-> IF d[n].k = key THEN [k |-> key, v |-> value] ELSE d[n]]
    ELSE Append(d, [k |-> key, v |-> value])

(***************************************************************************)
(* Characters. A printable ASCII character, tab, line feed, form feed and  *)
(* carriage return are written as themselves; every other character is     *)
(* written U+ followed by its code point in hexadecimal, four digits or     *)
(* more (U+000B, U+00E9, U+1F600); so is the grave accent, U+0060.         *)
(***************************************************************************)
\* the characters 0x20 to 0x7E
Printable ==
    <<" ", "!", "\"", "#", "$", "%", "&", "'", "(", ")", "*", "+", ",", "-", ".", "/",
      "0", "1", "2", "3", "4", "5", "6", "7", "8", "9", ":", ";", "<", "=", ">", "?",
      "@", "A", "B", "C", "D", "E", "F", "G", "H", "I", "J", "K", "L", "M", "N", "O",
      "P", "Q", "R", "S", "T", "U", "V", "W", "X", "Y", "Z", "[", "\\", "]", "^", "_",
      "U+0060", "a", "b", "c", "d", "e", "f", "g", "h", "i", "j", "k", "l", "m", "n", "o",
      "p", "q", "r", "s", "t", "u", "v", "w", "x", "y", "z", "{", "|", "}", "~">>

HexDigits ==
    <<"0", "1", "2", "3", "4", "5", "6", "7", "8", "9", "A", "B", "C", "D", "E", "F">>

MaxCodePoint == 1114111

\* n in hexadecimal, with at least width digits
RECURSIVE HexName(_, _)
HexName(n, width) ==
    IF n < 16 /\ width <= 1 THEN HexDigits[n + 1]
    ELSE HexName(n \div 16, width - 1) \o HexDigits[(n % 16) + 1]

\* chr(n)
CharOf(n) ==
    IF n \in 32..126 THEN Printable[n - 31]
    ELSE CASE n = 9  -> "\t"
           [] n = 10 -> "\n"
           [] n = 12 -> "\f"
           [] n = 13 -> "\r"
           [] OTHER  -> "U+" \o HexName(n, 4)

\* ord(c)
CodePoint(c) ==
    IF \E i \in 1..Len(Printable) : Printable[i] = c
    THEN 31 + (CHOOSE i \in 1..Len(Printable) : Printable[i] = c)
    ELSE CASE c = "\t" -> 9
           [] c = "\n" -> 10
           [] c = "\f" -> 12
           [] c = "\r" -> 13
           [] OTHER    -> CHOOSE n \in 0..MaxCodePoint : CharOf(n) = c

\* the bytes of a character in UTF-8
Utf8(n) ==
    IF n < 128 THEN <<n>>
    ELSE IF n < 2048 THEN <<192 + (n \div 64), 128 + (n % 64)>>
    ELSE IF n < 65536
         THEN <<224 + (n \div 4096), 128 + ((n \div 64) % 64), 128 + (n % 64)>>
    ELSE <<240 + (n \div 262144), 128 + ((n \div 4096) % 64),
           128 + ((n \div 64) % 64), 128 + (n % 64)>>

RECURSIVE Flatten(_)
Flatten(ss) == IF ss = <<>> THEN <<>> ELSE Head(ss) \o Flatten(Tail(ss))

\* the characters quote_plus leaves as they are: letters, digits and _ . - ~
Unreserved ==
    {CharOf(n) : n \in (48..57) \cup (65..90) \cup (97..122)} \cup {"_", ".", "-", "~"}

\* %XX of one byte, in upper-case hexadecimal
PercentByte(b) == <<"%", HexDigits[(b \div 16) + 1], HexDigits[(b % 16) + 1]>>

PercentBytes(bytes) == Flatten([k \in 1..Len(bytes) |-> PercentByte(bytes[k])])

\* urllib.parse.quote_plus on one character of a value: a space becomes '+',
\* every character that is not unreserved the %XX of each of its UTF-8 bytes
QuoteChar(c) ==
    IF c \in Unreserved THEN <<c>>
    ELSE IF c = " " THEN <<"+">>
    ELSE PercentBytes(Utf8(CodePoint(c)))

RECURSIVE QuotePlus(_)
QuotePlus(t) == IF t = <<>> THEN <<>> ELSE QuoteChar(Head(t)) \o QuotePlus(Tail(t))

IsHexDigit(c) ==
    c \in {"0", "1", "2", "3", "4", "5", "6", "7", "8", "9",
           "A", "B", "C", "D", "E", "F", "a", "b", "c", "d", "e", "f"}

HexValue(c) ==
    CASE c \in {"a", "A"} -> 10
      [] c \in {"b", "B"} -> 11
      [] c \in {"c", "C"} -> 12
      [] c \in {"d", "D"} -> 13
      [] c \in {"e", "E"} -> 14
      [] c \in {"f", "F"} -> 15
      [] OTHER -> CodePoint(c) - 48

\* the byte a %XX escape stands for, in either case of the hexadecimal digits
UnquoteHex(h) == 16 * HexValue(h[1]) + HexValue(h[2])

\* value.replace('+', ' ') and unquote_to_bytes: a value as the bytes of its
\* escapes and of its ASCII characters; a '%' that two hexadecimal digits do
\* not follow stays a '%'. A character that is not ASCII is not a byte: it is
\* kept as 256 + its code point.
RECURSIVE UnquoteToBytes(_, _)
UnquoteToBytes(t, i) ==
    IF i > Len(t) THEN <<>>
    ELSE IF t[i] = "+" THEN <<32>> \o UnquoteToBytes(t, i + 1)
    ELSE IF t[i] = "%" /\ i + 2 <= Len(t) /\ IsHexDigit(t[i + 1]) /\ IsHexDigit(t[i + 2])
         THEN <<UnquoteHex(SubSeq(t, i + 1, i + 2))>> \o UnquoteToBytes(t, i + 3)
    ELSE IF CodePoint(t[i]) < 128 THEN <<CodePoint(t[i])>> \o UnquoteToBytes(t, i + 1)
    ELSE <<256 + CodePoint(t[i])>> \o UnquoteToBytes(t, i + 1)

\* the bytes that have to follow a lead byte of UTF-8
Continuations(lead) ==
    IF lead \in 194..223 THEN 1
    ELSE IF lead \in 224..239 THEN 2
    ELSE IF lead \in 240..244 THEN 3
    ELSE 0

\* the values the k-th byte after a lead byte may have
ContinuationRange(lead, k) ==
    IF k > 1 THEN 128..191
    ELSE CASE lead = 224 -> 160..191
           [] lead = 237 -> 128..159
           [] lead = 240 -> 144..191
           [] lead = 244 -> 128..143
           [] OTHER      -> 128..191

\* how many of the bytes after the lead byte at i continue its character
RECURSIVE WellFormed(_, _, _)
WellFormed(bytes, i, k) ==
    IF /\ k < Continuations(bytes[i])
       /\ i + k + 1 <= Len(bytes)
       /\ bytes[i + k + 1] \in ContinuationRange(bytes[i], k + 1)
    THEN WellFormed(bytes, i, k + 1)
    ELSE k

Utf8CodePoint(bytes, i) ==
    CASE Continuations(bytes[i]) = 1 ->
            (bytes[i] - 192) * 64 + (bytes[i + 1] - 128)
      [] Continuations(bytes[i]) = 2 ->
            (bytes[i] - 224) * 4096 + (bytes[i + 1] - 128) * 64 + (bytes[i + 2] - 128)
      [] OTHER ->
            (bytes[i] - 240) * 262144 + (bytes[i + 1] - 128) * 4096
                + (bytes[i + 2] - 128) * 64 + (bytes[i + 3] - 128)

\* bytes.decode('utf-8', errors='replace'): every ill-formed run of bytes
\* becomes one U+FFFD
RECURSIVE Utf8Decode(_, _)
Utf8Decode(bytes, i) ==
    IF i > Len(bytes) THEN <<>>
    ELSE IF bytes[i] >= 256 THEN <<CharOf(bytes[i] - 256)>> \o Utf8Decode(bytes, i + 1)
    ELSE IF bytes[i] < 128 THEN <<CharOf(bytes[i])>> \o Utf8Decode(bytes, i + 1)
    ELSE IF /\ Continuations(bytes[i]) > 0
            /\ WellFormed(bytes, i, 0) = Continuations(bytes[i])
         THEN <<CharOf(Utf8CodePoint(bytes, i))>>
                \o Utf8Decode(bytes, i + Continuations(bytes[i]) + 1)
    ELSE <<CharOf(65533)>> \o Utf8Decode(bytes, i + WellFormed(bytes, i, 0) + 1)

\* urllib.parse.unquote_plus, as parse_qsl applies it to a received value
UnquotePlus(t) == Utf8Decode(UnquoteToBytes(t, 1), 1)

\* urlencode(query_params): every value quoted
UrlEncode(d) == [n \in 1..Len(d) |-> [k |-> d[n].k, v |-> QuotePlus(d[n].v)]]

\* the query string of a followed link, parsed back into query parameters
ParseQuery(qs) == [n \in 1..Len(qs) |-> [k |-> qs[n].k, v |-> UnquotePlus(qs[n].v)]]

\* make_url(request, limit, new_offset)
make_url(req, limit, new_offset) ==
    LET query_params ==
            DictSet(DictSet(DictOfQuery(req.query), "limit", IntToText(limit)),
                    "offset", IntToText(new_offset))
    IN  [base |-> req.base, qs |-> UrlEncode(query_params)]

\* v.split(','): the pieces between commas, empty pieces included
RECURSIVE SplitFrom(_, _, _)
SplitFrom(t, i, cur) ==
    IF i > Len(t) THEN <<cur>>
    ELSE IF t[i] = "," THEN <<cur>> \o SplitFrom(t, i + 1, <<>>)
    ELSE SplitFrom(t, i + 1, Append(cur, t[i]))

SplitCommas(t) == SplitFrom(t, 1, <<>>)

\* the characters str.strip() removes: those str.isspace() holds for
Whitespace ==
    {CharOf(n) : n \in (9..13) \cup (28..32) \cup {133, 160, 5760} \cup (8192..8202)
                        \cup {8232, 8233, 8239, 8287, 12288}}

\* item.strip() is empty: the piece holds nothing but whitespace
IsBlank(t) == \A i \in 1..Len(t) : t[i] \in Whitespace

NotBlank(t) == ~IsBlank(t)

FlatValues_FirstOnly(q, field_name) ==
    LET search_values == GetList(q, field_name)
    IN  IF search_values = <<>> THEN <<>>
        ELSE SelectSeq(SplitCommas(search_values[1]), NotBlank)

\* flat_values: the non-blank pieces of every value sent for the field
FlatValues(q, field_name) ==
    LET search_values == GetList(q, field_name)
    IN  Flatten([n \in 1..Len(search_values) |->
                    SelectSeq(SplitCommas(search_values[n]), NotBlank)])

IsDigit(c) == c \in {"0", "1", "2", "3", "4", "5", "6", "7", "8", "9"}

DigitValue(c) == CHOOSE d \in 0..9 : DigitChar(d) = c

IsDigits(t) == t # <<>> /\ \A i \in 1..Len(t) : IsDigit(t[i])

RECURSIVE DecimalValue(_)
DecimalValue(t) ==
    IF Len(t) = 1 THEN DigitValue(t[1])
    ELSE 10 * DecimalValue(SubSeq(t, 1, Len(t) - 1)) + DigitValue(t[Len(t)])

(***************************************************************************)
(* CommaSeparatedInts is imported from utils (src/main.py:19) and used as   *)
(* the dependency of status_id, topic_id and dept_id (src/main.py:239-241); *)
(* the source does not hold its definition. It is modelled from the         *)
(* boundary contract of the specification: the values of the parameter,     *)
(* sent as repeated parameters, as comma-separated lists or both, are       *)
(* unioned into one list of integers, empty tokens dropped; <<>> (None)     *)
(* when there are none. What the dependency does with a token that is not   *)
(* written in digits is not known: every reading in TokenReadings is a      *)
(* possible one.                                                            *)
(***************************************************************************)
FixedColumns == {"status_id", "topic_id", "dept_id"}

\* a token of a fixed-column filter is not a number written in digits
Malformed(q) ==
    \E name \in FixedColumns :
        \E n \in 1..Len(FlatValues(q, name)) : ~IsDigits(FlatValues(q, name)[n])

\* the dependency drops the token, or refuses the request: with an
\* HTTPException (400), a validation error (422) or an exception nothing
\* handles (500)
TokenReadings == {"drop", "400", "422", "500"}

RefusalStatus(reading) ==
    CASE reading = "400" -> 400
      [] reading = "422" -> 422
      [] reading = "500" -> 500

CommaSeparatedInts(q, name) ==
    LET toks == SelectSeq(FlatValues(q, name), IsDigits)
    IN  [n \in 1..Len(toks) |-> DecimalValue(toks[n])]

(***************************************************************************)
(* limit: int and offset: int. The route validates the text of the         *)
(* parameter as an integer the way pydantic does for a str in lax mode:    *)
(* whitespace around the text is trimmed, a sign is set aside, leading     *)
(* zeros, a fraction of zeros and single underscores between digits are    *)
(* removed, and what is left has to be a JSON integer: an optional minus   *)
(* sign and digits without a leading zero.                                 *)
(***************************************************************************)
\* the characters trimmed from the text: those of the Unicode property White_Space
TrimChars == Whitespace \ {CharOf(n) : n \in 28..31}

RECURSIVE Trim(_)
Trim(t) ==
    IF t = <<>> THEN t
    ELSE IF Head(t) \in TrimChars THEN Trim(Tail(t))
    ELSE IF t[Len(t)] \in TrimChars THEN Trim(SubSeq(t, 1, Len(t) - 1))
    ELSE t

IsNegative(t) == t # <<>> /\ Head(t) = "-"

\* the text without its sign: a leading minus, or else a leading plus
Unsigned(t) == IF t # <<>> /\ Head(t) \in {"-", "+"} THEN Tail(t) ELSE t

\* after a leading zero: zeros and underscores are skipped up to a digit that
\* is not zero or a minus sign; a dot keeps the zero before it
RECURSIVE SkipZeros(_, _)
SkipZeros(t, i) ==
    IF i > Len(t) THEN <<t[Len(t)]>>
    ELSE IF t[i] \in {"0", "_"} THEN SkipZeros(t, i + 1)
    ELSE IF IsDigit(t[i]) \/ t[i] = "-" THEN SubSeq(t, i, Len(t))
    ELSE IF t[i] = "." THEN SubSeq(t, i - 1, Len(t))
    ELSE <<>>

\* <<>> when the text does not start with a digit
StripLeadingZeros(t) ==
    IF t = <<>> THEN <<>>
    ELSE IF t[1] = "0" THEN SkipZeros(t, 2)
    ELSE IF IsDigit(t[1]) THEN t
    ELSE <<>>

\* a fraction that has digits, all of them zero, is dropped with its dot
StripDecimalZeros(t) ==
    IF t # <<>> /\ t[Len(t)] = "0" /\ \E i \in 1..Len(t) : t[i] = "."
    THEN LET at == CHOOSE i \in 1..Len(t) : t[i] = "." /\ \A j \in 1..(i - 1) : t[j] # "."
         IN  IF \A j \in (at + 1)..Len(t) : t[j] = "0" THEN SubSeq(t, 1, at - 1) ELSE t
    ELSE t

\* single underscores inside the text are dropped
StripUnderscores(t) ==
    IF /\ t # <<>>
       /\ \E i \in 1..Len(t) : t[i] = "_"
       /\ t[1] # "_"
       /\ t[Len(t)] # "_"
       /\ \A i \in 1..(Len(t) - 1) : ~(t[i] = "_" /\ t[i + 1] = "_")
    THEN SelectSeq(t, LAMBDA c : c # "_")
    ELSE t

\* the cleaned text of the number, without its sign; <<>> when the text cannot
\* be a number
CleanIntStr(str) == StripUnderscores(StripDecimalZeros(StripLeadingZeros(Unsigned(str))))

\* the text that is read as the number
IntText(t) ==
    (IF IsNegative(Trim(t)) THEN <<"-">> ELSE <<>>) \o CleanIntStr(Trim(t))

\* a JSON integer: an optional minus sign, then 0 or digits that do not start with 0
JsonInt(t) ==
    /\ IsDigits(Unsigned(t))
    /\ t[1] # "+"
    /\ Len(Unsigned(t)) = 1 \/ Unsigned(t)[1] # "0"

JsonIntValue(t) ==
    IF IsNegative(t) THEN 0 - DecimalValue(Tail(t)) ELSE DecimalValue(t)

IsInt(t) == JsonInt(IntText(t))

ParseInt(t) == JsonIntValue(IntText(t))

LimitDefault == 50
LimitMax == 500

\* limit: int = Query(50, ge=1, le=500), offset: int = Query(0, ge=0)
ParamLimit(q) == IF HasKey(q, "limit") THEN ParseInt(GetLast(q, "limit")) ELSE LimitDefault

ParamOffset(q) == IF HasKey(q, "offset") THEN ParseInt(GetLast(q, "offset")) ELSE 0

ParamsValid(q) ==
    /\ HasKey(q, "limit") => IsInt(GetLast(q, "limit"))
    /\ HasKey(q, "offset") => IsInt(GetLast(q, "offset"))
    /\ ParamLimit(q) >= 1 /\ ParamLimit(q) <= LimitMax
    /\ ParamOffset(q) >= 0

\* email: Optional[str] = None; <<>> when absent (an empty value is falsy too)
ParamEmail(q) == IF HasKey(q, "email") THEN GetLast(q, "email") ELSE <<>>

known_params == {"status_id", "topic_id", "dept_id", "email", "limit", "offset"}

NotKnown(k) == k \notin known_params

\* custom_field_keys: every other parameter name is a custom-field filter
CustomFieldKeys(q) == SelectSeq(QueryKeys(q), NotKnown)

(***************************************************************************)
(* Stored attribute values. A value is its raw text together with what a   *)
(* JSON parser makes of that text: kind "invalid" when it does not parse,  *)
(* the members in document order for an object, the characters for a       *)
(* string.                                                                 *)
(***************************************************************************)
Raw(text, kind, members, str) ==
    [text |-> text, kind |-> kind, members |-> members, str |-> str]

\* {"1":"ab"}
V_obj_ab ==
    Raw(<<"{", "\"", "1", "\"", ":", "\"", "a", "b", "\"", "}">>, "object",
        <<[key |-> <<"1">>, value |-> <<"a", "b">>]>>, <<>>)
\* {"1":"cd"}
V_obj_cd ==
    Raw(<<"{", "\"", "1", "\"", ":", "\"", "c", "d", "\"", "}">>, "object",
        <<[key |-> <<"1">>, value |-> <<"c", "d">>]>>, <<>>)
\* {"b":"ab","a":"cd"}
V_obj_multi ==
    Raw(<<"{", "\"", "b", "\"", ":", "\"", "a", "b", "\"", ",",
          "\"", "a", "\"", ":", "\"", "c", "d", "\"", "}">>, "object",
        <<[key |-> <<"b">>, value |-> <<"a", "b">>],
          [key |-> <<"a">>, value |-> <<"c", "d">>]>>, <<>>)
\* "ab" (a JSON-quoted scalar)
V_str_ab == Raw(<<"\"", "a", "b", "\"">>, "string", <<>>, <<"a", "b">>)
\* ab (plain text, not JSON)
V_plain_ab == Raw(<<"a", "b">>, "invalid", <<>>, <<>>)
\* 12 (a JSON number)
V_num == Raw(<<"1", "2">>, "number", <<>>, <<>>)
\* ["ab"] (a JSON array)
V_arr == Raw(<<"[", "\"", "a", "b", "\"", "]">>, "array", <<>>, <<>>)
\* {} (an empty JSON object)
V_empty == Raw(<<"{", "}">>, "object", <<>>, <<>>)
\* null
V_null == Raw(<<"n", "u", "l", "l">>, "null", <<>>, <<>>)
\* "a\/b" (a JSON string with an escaped slash, as PHP's json_encode writes a/b)
V_esc == Raw(<<"\"", "a", "\\", "/", "b", "\"">>, "string", <<>>, <<"a", "/", "b">>)

DisplayValue_AlwaysParsed(value) ==
    IF value.kind = "invalid" THEN [type |-> "str", text |-> value.text]
    ELSE IF value.kind = "string" THEN [type |-> "str", text |-> value.str]
    ELSE [type |-> value.kind, text |-> value.text]

\* json.loads(cf['value']) and the choice of the value to display:
\* the first member's value of a non-empty object, the parsed value itself for
\* any other JSON, the raw text when the text does not parse.
DisplayValue(value) ==
    IF value.kind = "invalid" THEN [type |-> "str", text |-> value.text]
    ELSE IF value.kind = "object" /\ value.members # <<>>
         THEN [type |-> "str", text |-> value.members[1].value]
    ELSE IF value.kind = "string" THEN [type |-> "str", text |-> value.str]
    ELSE [type |-> value.kind, text |-> value.text]

CharRank(c) ==
    CHOOSE n \in 1..36 :
        <<"0", "1", "2", "3", "4", "5", "6", "7", "8", "9", "a", "b", "c", "d", "e", "f",
          "g", "h", "i", "j", "k", "l", "m", "n", "o", "p", "q", "r", "s", "t", "u", "v",
          "w", "x", "y", "z">>[n] = c

RECURSIVE TextLess(_, _)
TextLess(a, b) ==
    IF a = <<>> THEN b # <<>>
    ELSE IF b = <<>> THEN FALSE
    ELSE IF Head(a) = Head(b) THEN TextLess(Tail(a), Tail(b))
    ELSE CharRank(Head(a)) < CharRank(Head(b))

\* MySQL keeps the members of a JSON object sorted by key (shorter keys first,
\* then by bytes); MariaDB reads them in document order.
KeyBefore(a, b) == Len(a) < Len(b) \/ (Len(a) = Len(b) /\ TextLess(a, b))

FirstMember(members) ==
    IF dialect = "mysql"
    THEN CHOOSE m \in {members[n] : n \in 1..Len(members)} :
            \A n \in 1..Len(members) : members[n].key = m.key \/ KeyBefore(m.key, members[n].key)
    ELSE members[1]

\* JSON_EXTRACT on a text that is not JSON: an error on MySQL, NULL on MariaDB.
JsonError(value) == dialect = "mysql" /\ value.kind = "invalid"

\* COALESCE(JSON_UNQUOTE(JSON_EXTRACT(JSON_EXTRACT(value, '$.*'), '$[0]')), value):
\* the first member's value of a non-empty object; '$.*' finds nothing in any
\* other value, and COALESCE falls back to the raw text.
FilterOperand(value) ==
    IF value.kind = "object" /\ value.members # <<>>
    THEN FirstMember(value.members).value
    ELSE value.text

\* text LIKE pattern: '%' stands for any run of characters, '_' for any one
\* character, a backslash takes the next pattern character literally.
RECURSIVE LikeFrom(_, _, _, _)
LikeFrom(t, i, pat, j) ==
    IF j > Len(pat) THEN i > Len(t)
    ELSE IF pat[j] = "%"
         THEN LikeFrom(t, i, pat, j + 1) \/ (i <= Len(t) /\ LikeFrom(t, i + 1, pat, j))
    ELSE IF pat[j] = "_" THEN i <= Len(t) /\ LikeFrom(t, i + 1, pat, j + 1)
    ELSE IF pat[j] = "\\" /\ j < Len(pat)
         THEN i <= Len(t) /\ t[i] = pat[j + 1] /\ LikeFrom(t, i + 1, pat, j + 2)
    ELSE i <= Len(t) /\ t[i] = pat[j] /\ LikeFrom(t, i + 1, pat, j + 1)

Like(t, pat) == LikeFrom(t, 1, pat, 1)

\* custom_field_params[param_name_val] = f"%{value}%"
LikePattern(value) == <<"%">> \o value \o <<"%">>

(***************************************************************************)
(* list_tickets: the count query, the page query and the response.         *)
(***************************************************************************)
Range(seq) == {seq[n] : n \in 1..Len(seq)}

\* if status_id: t.status_id IN :status_ids -- and the same for topic_id, dept_id
FixedFiltersHold(t, q) ==
    LET status_id == CommaSeparatedInts(q, "status_id")
        topic_id  == CommaSeparatedInts(q, "topic_id")
        dept_id   == CommaSeparatedInts(q, "dept_id")
    IN  /\ status_id # <<>> => t.status_id \in Range(status_id)
        /\ topic_id # <<>> => t.topic_id \in Range(topic_id)
        /\ dept_id # <<>> => t.dept_id \in Range(dept_id)

\* JOIN ost_user u ON t.user_id = u.id JOIN ost_user_email ue ON u.id = ue.user_id,
\* with ue.address = :email when the email filter is given
OwnerEmails(user_id, email) ==
    {ue \in ost_user_email :
        /\ ue.user_id = user_id
        /\ \E u \in ost_user : u.id = user_id
        /\ email # <<>> => ue.address = email}

\* the rows of ost_form_entry_values joined to an entity through
\* ost_form_entry (object_id, object_type = 'T') and ost_form_field
AttributeRows(object_id) ==
    {fev \in ost_form_entry_values :
        /\ \E fe \in ost_form_entry :
              fe.id = fev.entry_id /\ fe.object_id = object_id /\ fe.object_type = "T"
        /\ \E ff \in ost_form_field : ff.id = fev.field_id}

FieldName(fev) == (CHOOSE ff \in ost_form_field : ff.id = fev.field_id).name

\* one custom filter: ff.name = :cf_name AND (operand LIKE :v0 OR operand LIKE :v1 ...)
CustomFilterRows(t, q, field_name) ==
    LET flat_values == FlatValues(q, field_name)
    IN  {fev \in AttributeRows(t.ticket_id) :
            /\ FieldName(fev) = field_name
            /\ \E j \in 1..Len(flat_values) :
                  Like(FilterOperand(fev.value), LikePattern(flat_values[j]))}

RECURSIVE CustomJoinCount(_, _, _, _)
CustomJoinCount(t, q, keys, i) ==
    IF i > Len(keys) THEN 1
    ELSE Cardinality(CustomFilterRows(t, q, keys[i])) * CustomJoinCount(t, q, keys, i + 1)

\* the number of rows of the count query that carry ticket t
CountRowsOf(t, q) ==
    IF FixedFiltersHold(t, q)
    THEN Cardinality(OwnerEmails(t.user_id, ParamEmail(q)))
            * CustomJoinCount(t, q, CustomFieldKeys(q), 1)
    ELSE 0

\* the page query also has JOIN ost_ticket_status s ON t.status_id = s.id
HasStatusRow(t) == \E st \in ost_ticket_status : st.id = t.status_id

DataRowsOf(t, q) == IF HasStatusRow(t) THEN CountRowsOf(t, q) ELSE 0

(***************************************************************************)
(* What the SQL leaves to the server, and the server decides per request:  *)
(*  - whether the name test on ff shields the JSON_EXTRACT on fev.value    *)
(*    (nothing in the statement orders the two);                           *)
(*  - the order of the rows ORDER BY leaves tied, which are all the rows   *)
(*    of one entity: one per e-mail row of the user and per combination of *)
(*    matching value rows;                                                 *)
(*  - the order of the rows of the custom-field query, which has no ORDER  *)
(*    BY: of several value rows of one field name of a ticket, the one     *)
(*    returned last is the one displayed.                                  *)
(***************************************************************************)
\* the orders of n rows, as the positions picked one after the other from the
\* rows that are left
Orderings(n) == {c \in [1..n -> 1..n] : \A k \in 1..n : c[k] <= n - k + 1}

RECURSIVE Permute(_, _, _)
Permute(rows, code, k) ==
    IF rows = <<>> THEN <<>>
    ELSE LET i == IF k <= Len(code) THEN ((code[k] - 1) % Len(rows)) + 1 ELSE 1
         IN  <<rows[i]>>
                \o Permute(SubSeq(rows, 1, i - 1) \o SubSeq(rows, i + 1, Len(rows)),
                           code, k + 1)

NamedRows(ticket_id, name) == {fev \in AttributeRows(ticket_id) : FieldName(fev) = name}

\* the most rows a statement can hold of one ticket: every e-mail row of the
\* owner with every combination of one value row per field name
RECURSIVE MaxCopies(_, _)
MaxCopies(ticket_id, names) ==
    IF names = {} THEN 1
    ELSE LET name == CHOOSE x \in names : TRUE
         IN  Cardinality(NamedRows(ticket_id, name)) * MaxCopies(ticket_id, names \ {name})

MaxTicketRows(t) ==
    Cardinality(OwnerEmails(t.user_id, <<>>))
        * MaxCopies(t.ticket_id, {FieldName(fev) : fev \in AttributeRows(t.ticket_id)})

MaxUserRows(u) == Cardinality(OwnerEmails(u.id, <<>>))

\* an order for the rows of every ticket, and of every user, that can have more
\* than one row
TicketOrders ==
    LET tied == {t \in ost_ticket : MaxTicketRows(t) > 1}
        most == MaxOf({MaxTicketRows(t) : t \in tied} \cup {0})
    IN  {f \in [{t.ticket_id : t \in tied} -> Orderings(most)] :
            \A t \in tied : \A k \in 1..most :
                k <= MaxTicketRows(t) \/ f[t.ticket_id][k] = 1}

UserOrders ==
    LET tied == {u \in ost_user : MaxUserRows(u) > 1}
        most == MaxOf({MaxUserRows(u) : u \in tied} \cup {0})
    IN  {f \in [{u.id : u \in tied} -> Orderings(most)] :
            \A u \in tied : \A k \in 1..most :
                k <= MaxUserRows(u) \/ f[u.id][k] = 1}

OrderOf(orders, id) == IF id \in DOMAIN orders THEN orders[id] ELSE <<>>

\* for every field name a ticket has several value rows of, the row the
\* custom-field query returns last
LastRows ==
    LET groups == {<<t.ticket_id, FieldName(fev)>> :
                      t \in ost_ticket, fev \in ost_form_entry_values}
        tied == {g \in groups : Cardinality(NamedRows(g[1], g[2])) > 1}
    IN  {f \in [tied -> ost_form_entry_values] :
            \A g \in tied : f[g] \in NamedRows(g[1], g[2])}

Plans == [shielded : BOOLEAN, tickets : TicketOrders, users : UserOrders, last : LastRows]

\* what decides the outcome of list_tickets apart from the request and the
\* store: the server's plan and, for a request with a malformed token of a
\* fixed column, the reading of the token
ListPlans(q) ==
    {[shielded |-> plan.shielded, tickets |-> plan.tickets, users |-> plan.users,
      last |-> plan.last, tokens |-> reading] :
        plan \in Plans, reading \in IF Malformed(q) THEN TokenReadings ELSE {"drop"}}

\* a custom filter without tokens compiles to "AND ()": a syntax error
SyntaxError(q) ==
    \E n \in 1..Len(CustomFieldKeys(q)) : FlatValues(q, CustomFieldKeys(q)[n]) = <<>>

\* a row that passes every other condition of the statement carries a value of
\* a filtered field that is not JSON: JSON_EXTRACT is evaluated on it under
\* every plan
MustRaise(q) ==
    \E n \in 1..Len(CustomFieldKeys(q)) :
        \E t \in ost_ticket : \E fev \in AttributeRows(t.ticket_id) :
            /\ FieldName(fev) = CustomFieldKeys(q)[n]
            /\ JsonError(fev.value)
            /\ FixedFiltersHold(t, q)
            /\ OwnerEmails(t.user_id, ParamEmail(q)) # {}
            /\ \A m \in 1..Len(CustomFieldKeys(q)) :
                  m # n => CustomFilterRows(t, q, CustomFieldKeys(q)[m]) # {}

\* some row of ost_form_entry_values is not JSON: a plan that evaluates the
\* predicate on fev.value when it reads the row raises on it
MayRaise(q) ==
    /\ CustomFieldKeys(q) # <<>>
    /\ \E fev \in ost_form_entry_values : JsonError(fev.value)

\* A statement the server rejects: the syntax error, and on MySQL JSON_EXTRACT
\* on a value that is not JSON (error 3141), where the plan decides whether the
\* value of another field, or of a row other conditions exclude, is evaluated.
QueryFails(q, plan) ==
    \/ SyntaxError(q)
    \/ MustRaise(q)
    \/ ~plan.shielded /\ MayRaise(q)

RECURSIVE TotalCount(_, _)
TotalCount(S, q) ==
    IF S = {} THEN 0
    ELSE LET t == CHOOSE y \in S : TRUE IN CountRowsOf(t, q) + TotalCount(S \ {t}, q)

\* ORDER BY t.created DESC, t.ticket_id DESC
NewestTicket(S) ==
    CHOOSE x \in S : \A y \in S :
        \/ y = x
        \/ x.created > y.created
        \/ x.created = y.created /\ x.ticket_id > y.ticket_id

RECURSIVE SortTickets(_)
SortTickets(S) ==
    IF S = {} THEN <<>>
    ELSE LET x == NewestTicket(S) IN <<x>> \o SortTickets(S \ {x})

\* ORDER BY u.created DESC, u.id DESC
NewestUser(S) ==
    CHOOSE x \in S : \A y \in S :
        \/ y = x
        \/ x.created > y.created
        \/ x.created = y.created /\ x.id > y.id

RECURSIVE SortUsers(_)
SortUsers(S) ==
    IF S = {} THEN <<>>
    ELSE LET x == NewestUser(S) IN <<x>> \o SortUsers(S \ {x})

\* the e-mail rows of one entity, listed by id: the rows a plan's order is
\* applied to
RECURSIVE SortById(_)
SortById(S) ==
    IF S = {} THEN <<>>
    ELSE LET x == CHOOSE y \in S : \A z \in S : y.id <= z.id
         IN  <<x>> \o SortById(S \ {x})

\* custom_fields_map[ticket_id][name] = value for every row of the custom-field
\* query in turn: the map of a ticket holds, per field name, the displayed value
\* of the row returned last
CustomFieldsOf(ticket_id, plan) ==
    LET rows == AttributeRows(ticket_id)
    IN  [name \in {FieldName(fev) : fev \in rows} |->
            DisplayValue((IF <<ticket_id, name>> \in DOMAIN plan.last
                          THEN plan.last[<<ticket_id, name>>]
                          ELSE CHOOSE fev \in rows : FieldName(fev) = name).value)]

\* s.name as status_name, u.name as user_name of the joined rows
StatusName(t) == (CHOOSE st \in ost_ticket_status : st.id = t.status_id).name

UserName(t) == (CHOOSE u \in ost_user : u.id = t.user_id).name

TicketItemOf_MapWhenAny(t, ue, plan) ==
    LET columns == [ticket_id |-> t.ticket_id, number |-> t.number, created |-> t.created,
                    status_id |-> t.status_id, status_name |-> StatusName(t),
                    topic_id |-> t.topic_id, dept_id |-> t.dept_id, user_id |-> t.user_id,
                    user_name |-> UserName(t), user_email |-> ue.address]
    IN  IF AttributeRows(t.ticket_id) = {} THEN columns
        ELSE columns @@ [custom_fields |-> CustomFieldsOf(t.ticket_id, plan)]

\* dict(r) of a result row, then item['custom_fields'] = custom_fields_map.get(id, {})
TicketItemOf(t, ue, plan) ==
    [ticket_id |-> t.ticket_id, number |-> t.number, created |-> t.created,
     status_id |-> t.status_id, status_name |-> StatusName(t), topic_id |-> t.topic_id,
     dept_id |-> t.dept_id, user_id |-> t.user_id, user_name |-> UserName(t),
     user_email |-> ue.address, custom_fields |-> CustomFieldsOf(t.ticket_id, plan)]

\* the rows of the page query that carry ticket t: one per owner email and per
\* combination of matching attribute rows. ORDER BY t.created DESC, t.ticket_id
\* DESC ties them all, so they come in the order of the server's plan.
TicketRows(t, q, plan) ==
    IF DataRowsOf(t, q) = 0 THEN <<>>
    ELSE LET emails == SortById(OwnerEmails(t.user_id, ParamEmail(q)))
             copies == CustomJoinCount(t, q, CustomFieldKeys(q), 1)
         IN  Permute(Flatten([n \in 1..Len(emails) |->
                                [c \in 1..copies |-> TicketItemOf(t, emails[n], plan)]]),
                     OrderOf(plan.tickets, t.ticket_id), 1)

\* the page query without its LIMIT and OFFSET
TicketListing(q, plan) ==
    LET sorted == SortTickets(ost_ticket)
    IN  Flatten([n \in 1..Len(sorted) |-> TicketRows(sorted[n], q, plan)])

Min(a, b) == IF a <= b THEN a ELSE b
Max(a, b) == IF a >= b THEN a ELSE b

\* LIMIT {limit} OFFSET {offset}
Page(rows, limit, offset) == SubSeq(rows, offset + 1, Min(offset + limit, Len(rows)))

HasNext_Inclusive(offset, limit, total_records) == offset + limit <= total_records

\* next_url is built if offset + limit < total_records
HasNext(offset, limit, total_records) == offset + limit < total_records

\* prev_url is built if offset > 0
HasPrevious(offset) == offset > 0

PreviousOffset_Abs(offset, limit) ==
    IF offset >= limit THEN offset - limit ELSE limit - offset

\* new_prev_offset = max(0, offset - limit)
PreviousOffset(offset, limit) == Max(0, offset - limit)

Envelope(req, total_records, items) ==
    LET limit  == ParamLimit(req.query)
        offset == ParamOffset(req.query)
    IN  [status |-> 200, total |-> total_records, limit |-> limit, offset |-> offset,
         next |-> IF HasNext(offset, limit, total_records)
                  THEN <<make_url(req, limit, offset + limit)>> ELSE <<>>,
         previous |-> IF HasPrevious(offset)
                      THEN <<make_url(req, limit, PreviousOffset(offset, limit))>> ELSE <<>>,
         items |-> items]

(***************************************************************************)
(* The route around a handler: FastAPI validates the value the handler     *)
(* returns against the route's response_model and serialises the model's   *)
(* fields; a value that does not conform is an unhandled                   *)
(* ResponseValidationError, HTTP 500.                                      *)
(***************************************************************************)
\* models.TicketItem: its fields, and those without a default
TicketItemFields ==
    {"ticket_id", "number", "created", "status_id", "status_name", "topic_id",
     "topic_name", "dept_id", "dept_name", "user_id", "owner_name", "email"}

TicketItemRequired ==
    {"ticket_id", "number", "created", "status_id", "status_name", "user_id",
     "owner_name", "email"}

\* models.UserResponse: every field is required
UserResponseFields == {"id", "name", "email", "created", "updated"}

ItemFields(base) ==
    IF base \in {"/tickets", "/tickets/{ticket_id}"} THEN TicketItemFields
    ELSE UserResponseFields

ItemRequired(base) ==
    IF base \in {"/tickets", "/tickets/{ticket_id}"} THEN TicketItemRequired
    ELSE UserResponseFields

Conforms(base, item) == ItemRequired(base) \subseteq DOMAIN item

Serialised(base, item) == [k \in DOMAIN item \cap ItemFields(base) |-> item[k]]

\* the route's answer to what a listing handler returned or raised
ListingAnswer(base, ret) ==
    IF ret.status # 200 THEN ret
    ELSE IF \E n \in 1..Len(ret.items) : ~Conforms(base, ret.items[n])
         THEN [status |-> 500]
    ELSE [ret EXCEPT !.items = [n \in 1..Len(ret.items) |-> Serialised(base, ret.items[n])]]

\* the route's answer to what a lookup handler returned or raised
LookupAnswer(base, ret) ==
    IF ret.status # 200 THEN ret
    ELSE IF ~Conforms(base, ret.item) THEN [status |-> 500]
    ELSE [ret EXCEPT !.item = Serialised(base, ret.item)]

\* What the handler list_tickets returns or raises: the refusal of a dependency,
\* which is solved before the parameters are validated, 422 from parameter
\* validation, 500 when a statement raises, else the envelope.
ListTicketsReturn(req, plan) ==
    IF Malformed(req.query) /\ plan.tokens # "drop"
    THEN [status |-> RefusalStatus(plan.tokens)]
    ELSE IF ~ParamsValid(req.query) THEN [status |-> 422]
    ELSE IF QueryFails(req.query, plan) THEN [status |-> 500]
    ELSE Envelope(req, TotalCount(ost_ticket, req.query),
                  Page(TicketListing(req.query, plan), ParamLimit(req.query),
                       ParamOffset(req.query)))

\* GET /tickets with response_model=PaginatedTicketResponse
ListTicketsResponse(req, plan) == ListingAnswer("/tickets", ListTicketsReturn(req, plan))

(***************************************************************************)
(* list_users.                                                             *)
(***************************************************************************)
UserRows(u, q, plan) ==
    LET emails == SortById(OwnerEmails(u.id, ParamEmail(q)))
    IN  Permute([n \in 1..Len(emails) |->
                    [id |-> u.id, name |-> u.name, email |-> emails[n].address,
                     created |-> u.created, updated |-> u.updated]],
                OrderOf(plan.users, u.id), 1)

RECURSIVE UserCount(_, _)
UserCount(S, q) ==
    IF S = {} THEN 0
    ELSE LET u == CHOOSE y \in S : TRUE
         IN  Cardinality(OwnerEmails(u.id, ParamEmail(q))) + UserCount(S \ {u}, q)

UserListing(q, plan) ==
    LET sorted == SortUsers(ost_user)
    IN  Flatten([n \in 1..Len(sorted) |-> UserRows(sorted[n], q, plan)])

\* get_ticket: 404 when the joined query finds no row, else the row with its
\* custom_fields map
GetTicketRows(ticket_id) ==
    {<<t, s, u, ue>> \in ost_ticket \X ost_ticket_status \X ost_user \X ost_user_email :
        /\ t.ticket_id = ticket_id
        /\ t.status_id = s.id
        /\ t.user_id = u.id
        /\ u.id = ue.user_id}

GetTicketItem(row, plan) ==
    LET t == row[1] s == row[2] u == row[3] ue == row[4]
    IN  [ticket_id |-> t.ticket_id, number |-> t.number, created |-> t.created,
         status_id |-> t.status_id, status_name |-> s.name, topic_id |-> t.topic_id,
         dept_id |-> t.dept_id, user_id |-> t.user_id, user_name |-> u.name,
         user_email |-> ue.address, custom_fields |-> CustomFieldsOf(t.ticket_id, plan)]

\* .first(): the first row in the order the server's plan produces
GetTicketReturn(ticket_id, plan) ==
    LET rows == GetTicketRows(ticket_id)
        emails == SortById({row[4] : row \in rows})
        first == Permute(emails, OrderOf(plan.tickets, ticket_id), 1)[1]
    IN  IF rows = {} THEN [status |-> 404, detail |-> "Ticket not found"]
        ELSE [status |-> 200,
              item |-> GetTicketItem(CHOOSE row \in rows : row[4] = first, plan)]

\* GET /tickets/{ticket_id} with response_model=TicketItem
GetTicketResponse(ticket_id, plan) ==
    LookupAnswer("/tickets/{ticket_id}", GetTicketReturn(ticket_id, plan))

\* get_user: 404 when the joined query finds no row, else the row
GetUserRows(user_id) ==
    {<<u, ue>> \in ost_user \X ost_user_email : u.id = user_id /\ u.id = ue.user_id}

GetUserReturn(user_id, plan) ==
    LET rows == GetUserRows(user_id)
    IN  IF rows = {} THEN [status |-> 404, detail |-> "User not found"]
        ELSE LET emails == SortById({r[2] : r \in rows})
                 first == Permute(emails, OrderOf(plan.users, user_id), 1)[1]
                 row == CHOOSE r \in rows : r[2] = first
             IN  [status |-> 200,
                  item |-> [id |-> row[1].id, name |-> row[1].name,
                            email |-> row[2].address, created |-> row[1].created,
                            updated |-> row[1].updated]]

\* GET /users/{user_id} with response_model=UserResponse
GetUserResponse(user_id, plan) ==
    LookupAnswer("/users/{user_id}", GetUserReturn(user_id, plan))

ListUsersReturn(req, plan) ==
    IF ~ParamsValid(req.query) THEN [status |-> 422]
    ELSE Envelope(req, UserCount(ost_user, req.query),
                  Page(UserListing(req.query, plan), ParamLimit(req.query),
                       ParamOffset(req.query)))

\* GET /users with response_model=PaginatedUserResponse
ListUsersResponse(req, plan) == ListingAnswer("/users", ListUsersReturn(req, plan))

(***************************************************************************)
(* The stores and the requests the listing endpoints are checked on.       *)
(* Timestamps are clock readings; 0 is a day before the first modelled one.*)
(***************************************************************************)
MaxPageLimit == 2
MaxOffset == 4

TicketRow(ticket_id, user_id, dept_id, topic_id, status_id, created) ==
    [ticket_id |-> ticket_id, number |-> IntToText(ticket_id), user_id |-> user_id,
     dept_id |-> dept_id, topic_id |-> topic_id, status_id |-> status_id,
     created |-> created, updated |-> created, closed |-> <<>>]

ListedUsers ==
    { [id |-> 1, name |-> "Test User", created |-> 0, updated |-> 0],
      [id |-> 2, name |-> "Test User 2", created |-> 1, updated |-> 1],
      [id |-> 3, name |-> "Test User 3", created |-> 1, updated |-> 2],
      [id |-> 4, name |-> "Test User 4", created |-> 2, updated |-> 2] }

ListedEmails ==
    { [id |-> 1, user_id |-> 1, address |-> <<"a", "@", "x">>],
      [id |-> 2, user_id |-> 2, address |-> <<"b", "@", "x">>],
      [id |-> 3, user_id |-> 3, address |-> <<"c", "@", "x">>],
      [id |-> 4, user_id |-> 4, address |-> <<"d", "@", "x">>] }

ListStores ==
    { \* statuses 1 and 3 as in test_close_ticket; tickets with custom fields
      \* "EFR" and "order_id", and a form entry of a user (object_type 'U')
      [users    |-> ListedUsers, emails |-> ListedEmails,
       statuses |-> {[id |-> 1, name |-> "Open"], [id |-> 3, name |-> "Closed"]},
       tickets  |-> {TicketRow(1, 1, 1, 1, 1, 1), TicketRow(2, 2, 2, 2, 1, 1),
                     TicketRow(3, 1, 2, 1, 3, 2), TicketRow(4, 3, 1, 1, 3, 0)},
       fields   |-> {[id |-> 1, name |-> "EFR"], [id |-> 2, name |-> "order_id"]},
       entries  |-> {[id |-> 1, object_id |-> 1, object_type |-> "T"],
                     [id |-> 2, object_id |-> 2, object_type |-> "T"],
                     [id |-> 3, object_id |-> 3, object_type |-> "T"],
                     [id |-> 4, object_id |-> 4, object_type |-> "T"],
                     [id |-> 5, object_id |-> 1, object_type |-> "U"]},
       values   |-> {[entry_id |-> 1, field_id |-> 1, value |-> V_obj_ab],
                     [entry_id |-> 1, field_id |-> 2, value |-> V_plain_ab],
                     [entry_id |-> 2, field_id |-> 1, value |-> V_str_ab],
                     [entry_id |-> 3, field_id |-> 1, value |-> V_obj_cd],
                     [entry_id |-> 4, field_id |-> 1, value |-> V_obj_multi],
                     [entry_id |-> 5, field_id |-> 1, value |-> V_obj_cd]}],
      \* the store of test_create_and_get_ticket:
      \* status 1 only, tickets without custom fields
      [users    |-> ListedUsers, emails |-> ListedEmails,
       statuses |-> {[id |-> 1, name |-> "Open"]},
       tickets  |-> {TicketRow(1, 1, 1, 1, 1, 1), TicketRow(2, 2, 1, 1, 1, 2)},
       fields   |-> {}, entries |-> {}, values |-> {}],
      \* values of the other JSON kinds, and a ticket without any value
      [users    |-> ListedUsers, emails |-> ListedEmails,
       statuses |-> {[id |-> 1, name |-> "Open"], [id |-> 3, name |-> "Closed"]},
       tickets  |-> {TicketRow(1, 1, 1, 1, 1, 0), TicketRow(2, 2, 1, 1, 1, 1),
                     TicketRow(3, 3, 1, 1, 1, 2), TicketRow(4, 1, 1, 1, 3, 2)},
       fields   |-> {[id |-> 1, name |-> "EFR"], [id |-> 2, name |-> "order_id"]},
       entries  |-> {[id |-> 1, object_id |-> 1, object_type |-> "T"],
                     [id |-> 2, object_id |-> 2, object_type |-> "T"],
                     [id |-> 3, object_id |-> 3, object_type |-> "T"]},
       values   |-> {[entry_id |-> 1, field_id |-> 1, value |-> V_num],
                     [entry_id |-> 1, field_id |-> 2, value |-> V_arr],
                     [entry_id |-> 2, field_id |-> 1, value |-> V_empty],
                     [entry_id |-> 2, field_id |-> 2, value |-> V_null],
                     [entry_id |-> 3, field_id |-> 1, value |-> V_esc]}] }

Param(k, v) == [k |-> k, v |-> v]

\* the filters of GET /tickets: fixed columns as one value and as a comma list;
\* custom fields as one token, a comma list, a repeated
\* parameter, tokens with a LIKE wildcard or a quote, two fields, an unknown
\* field, an empty value, and a fixed column with a token that is no number
TicketFilters ==
    { <<>>,
      <<Param("status_id", <<"3">>)>>,
      <<Param("status_id", <<"1", ",", "3">>)>>,
      <<Param("dept_id", <<"2">>)>>,
      <<Param("topic_id", <<"2">>)>>,
      <<Param("email", <<"a", "@", "x">>)>>,
      <<Param("EFR", <<"a", "b">>)>>,
      <<Param("EFR", <<"a", "b", ",", "c", "d">>)>>,
      <<Param("EFR", <<"a", "b">>), Param("EFR", <<"c", "d">>)>>,
      <<Param("EFR", <<"a", "b">>), Param("EFR", <<"c", "d", ",", "a", "b">>)>>,
      <<Param("EFR", <<"a", "b", ",">>)>>,
      <<Param("EFR", <<"a", "/", "b">>)>>,
      <<Param("EFR", <<"\"", "a">>)>>,
      <<Param("EFR", <<"_">>)>>,
      <<Param("EFR", <<"a", "b">>), Param("order_id", <<"a", "b">>)>>,
      <<Param("status_id", <<"3">>), Param("EFR", <<"c", "d">>)>>,
      <<Param("zz", <<"a", "b">>)>>,
      <<Param("EFR", <<>>)>>,
      <<Param("EFR", <<"\t">>)>>,
      <<Param("status_id", <<"1", ",", "x">>)>> }

UserFilters ==
    { <<>>,
      <<Param("email", <<"b", "@", "x">>)>>,
      <<Param("email", <<"n", "@", "x">>)>> }

\* limit absent (the default), small pages, the largest page, 0 (rejected), and
\* a number written with a sign
LimitChoices ==
    {<<>>} \cup {<<Param("limit", IntToText(n))>> : n \in (0..MaxPageLimit) \cup {LimitMax}}
           \cup {<<Param("limit", <<"+", "2">>)>>}

\* offset absent, the offsets up to the bound, and numbers written with a
\* fraction of zeros and with a minus sign (rejected)
OffsetChoices ==
    {<<>>} \cup {<<Param("offset", IntToText(n))>> : n \in 0..MaxOffset}
           \cup {<<Param("offset", <<"1", ".", "0">>)>>, <<Param("offset", <<"-", "1">>)>>}

ListRequests ==
    {[base |-> "/tickets", path_id |-> 0, query |-> f \o l \o o] :
        f \in TicketFilters, l \in LimitChoices, o \in OffsetChoices}
    \cup
    {[base |-> "/users", path_id |-> 0, query |-> f \o l \o o] :
        f \in UserFilters, l \in LimitChoices, o \in OffsetChoices}

\* the identifiers single-entity lookups are made with: existing and not
LookupIds == {1, 2, 4, 99}

LookupRequests ==
    {[base |-> b, path_id |-> id, query |-> <<>>] :
        b \in {"/tickets/{ticket_id}", "/users/{user_id}"}, id \in LookupIds}

CloseIds == {1, 99}

(***************************************************************************)
(* The listing endpoints as actions. A client sends a request, the handler *)
(* answers it, and the client may follow the next link of the answer; walk *)
(* records the first request of such a walk and the items of its pages.    *)
(***************************************************************************)
InitList ==
    /\ \E st \in ListStores :
          /\ ost_user = st.users
          /\ ost_user_email = st.emails
          /\ ost_ticket_status = st.statuses
          /\ ost_ticket = st.tickets
          /\ ost_form_field = st.fields
          /\ ost_form_entry = st.entries
          /\ ost_form_entry_values = st.values
          /\ ost_thread = {[id |-> t.ticket_id, object_id |-> t.ticket_id,
                            object_type |-> "T"] : t \in st.tickets}
          /\ ost_thread_entry = {[id |-> t.ticket_id, thread_id |-> t.ticket_id,
                                  type |-> "M"] : t \in st.tickets}
          /\ auto_inc = [ticket |-> Cardinality(st.tickets),
                         thread |-> Cardinality(st.tickets),
                         entry |-> Cardinality(st.tickets)]
    /\ ost_config = [ticket_sequence_id |-> <<>>, ticket_number_format |-> <<>>]
    /\ ost_sequence = (1 :> [name |-> "ticket_number", next |-> 0])
    /\ tx = [p \in Conns |-> EmptyTx]
    /\ conn_last_id = [p \in Conns |-> 0]
    /\ pc = [p \in Conns |-> "idle"]
    /\ loc = [p \in Conns |-> InitLoc]
    /\ calls_started = 0
    /\ log = <<>>
    /\ clock = Len(Dates)
    /\ dialect \in {"mysql", "mariadb"}
    /\ request \in ListRequests \cup LookupRequests
    /\ response = NoResponse
    /\ walk = NoWalk
    /\ ost_api_key = ApiKeys
    /\ auth = Verified
    /\ InitElsewhere

\* the walk of a client after one more answer: the request it started with, the
\* items collected, the pages fetched, and the states of ost_ticket the pages
\* were read from
Walked(req, resp) ==
    [origin |-> IF walk.pages = 0 THEN req ELSE walk.origin,
     items  |-> IF resp.status = 200 THEN walk.items \o resp.items ELSE walk.items,
     pages  |-> walk.pages + 1,
     stores |-> Append(walk.stores, ost_ticket)]

\* GET /tickets
list_tickets ==
    /\ Authorized
    /\ request.base = "/tickets"
    /\ response = NoResponse
    /\ \E plan \in ListPlans(request.query) :
          /\ returned' = ListTicketsReturn(request, plan)
          /\ response' = ListTicketsResponse(request, plan)
          /\ walk' = Walked(request, ListTicketsResponse(request, plan))
    /\ UNCHANGED <<storeVars, createVars, clock, formVars, request, auth>>

\* GET /users
list_users ==
    /\ Authorized
    /\ request.base = "/users"
    /\ response = NoResponse
    /\ \E plan \in Plans :
          /\ returned' = ListUsersReturn(request, plan)
          /\ response' = ListUsersResponse(request, plan)
          /\ walk' = Walked(request, ListUsersResponse(request, plan))
    /\ UNCHANGED <<storeVars, createVars, clock, formVars, request, auth>>

\* GET /tickets/{ticket_id}
get_ticket ==
    /\ Authorized
    /\ request.base = "/tickets/{ticket_id}"
    /\ response = NoResponse
    /\ \E plan \in Plans :
          /\ returned' = GetTicketReturn(request.path_id, plan)
          /\ response' = GetTicketResponse(request.path_id, plan)
    /\ UNCHANGED <<storeVars, createVars, clock, formVars, request, walk, auth>>

\* GET /users/{user_id}
get_user ==
    /\ Authorized
    /\ request.base = "/users/{user_id}"
    /\ response = NoResponse
    /\ \E plan \in Plans :
          /\ returned' = GetUserReturn(request.path_id, plan)
          /\ response' = GetUserResponse(request.path_id, plan)
    /\ UNCHANGED <<storeVars, createVars, clock, formVars, request, walk, auth>>

\* the client requests the URL of the next link
FollowNext ==
    /\ request.base \in {"/tickets", "/users"}
    /\ response.status = 200
    /\ response.next # <<>>
    /\ request' = [base |-> response.next[1].base, path_id |-> 0,
                   query |-> ParseQuery(response.next[1].qs)]
    /\ response' = NoResponse
    /\ returned' = NoResponse
    /\ UNCHANGED <<storeVars, createVars, clock, formVars, walk, auth>>

close_ticket_NoCommit(ticket_id) ==
    /\ Authorized
    /\ closes' = closes \cup {ticket_id}
    /\ UNCHANGED <<storeVars, createVars, clock, readVars, attachVars, isolation, view,
                   held, listVars>>

\* PUT /tickets/{ticket_id}/close:
\* UPDATE ost_ticket SET status_id = 3, closed = NOW(), updated = NOW(); commit
close_ticket(ticket_id) ==
    /\ Authorized
    /\ ost_ticket' = {IF t.ticket_id = ticket_id
                      THEN [t EXCEPT !.status_id = 3, !.closed = <<clock>>, !.updated = clock]
                      ELSE t : t \in ost_ticket}
    /\ closes' = closes \cup {ticket_id}
    /\ UNCHANGED <<ost_config, ost_sequence, ost_user, ost_thread, ost_thread_entry,
                   createVars, clock, readVars, attachVars, isolation, view, held, listVars>>

NextList ==
    \/ list_tickets
    \/ list_users
    \/ get_ticket
    \/ get_user
    \/ FollowNext
    \/ \E ticket_id \in CloseIds : close_ticket(ticket_id)

SpecList == InitList /\ [][NextList]_vars

(***************************************************************************)
(* Properties of the listing endpoints.                                    *)
(***************************************************************************)
\* a listing handler has returned an envelope
Answered == request.base \in {"/tickets", "/users"} /\ returned.status = 200

ItemIds == {returned.items[n].ticket_id : n \in 1..Len(returned.items)}

FilterNames(q) == {q[n].k : n \in 1..Len(q)} \ {"limit", "offset"}

\* the answer holds the whole listing: it starts at offset 0 and nothing is cut off
WholeListing == Answered /\ returned.offset = 0 /\ returned.total <= returned.limit

\* list_tickets has answered the request and ost_ticket is as the answer read
\* it: no close_ticket has changed a ticket since
TicketsAnswered ==
    /\ request.base = "/tickets"
    /\ returned # NoResponse
    /\ walk.stores[Len(walk.stores)] = ost_ticket

\* no page of the walk was read from another state of ost_ticket than this one
UnchangedStore == \A n \in 1..Len(walk.stores) : walk.stores[n] = ost_ticket

\* C5: in every answer of list_tickets and list_users the previous link is absent
\* exactly when offset = 0, and the next link is absent exactly when
\* offset + limit >= total.
C5_LinkPresence ==
    Answered =>
        /\ (returned.previous = <<>>) <=> (returned.offset = 0)
        /\ (returned.next = <<>>) <=> (returned.offset + returned.limit >= returned.total)

\* a last page that is not the first: offset + limit = total with offset > 0
C5_Witness ==
    /\ Answered
    /\ returned.offset > 0
    /\ returned.total > 0
    /\ returned.offset + returned.limit = returned.total
    /\ returned.next = <<>>
    /\ returned.previous # <<>>

\* C6: the number of returned items is min(limit, max(0, total - offset)) for the
\* total reported in the same answer.
C6_PageSize ==
    Answered =>
        Len(returned.items) = Min(returned.limit, Max(0, returned.total - returned.offset))

\* C7: a link carries every parameter of the request other than limit and offset
\* with its original values, so the request made by following it compiles to the
\* same filter names and token lists.
LinkKeepsParameters(link) ==
    LET q  == request.query
        q2 == ParseQuery(link.qs)
    IN  /\ link.base = request.base
        /\ FilterNames(q2) = FilterNames(q)
        /\ \A k \in FilterNames(q) : GetList(q2, k) = GetList(q, k)
        /\ CustomFieldKeys(q2) = CustomFieldKeys(q)
        /\ \A k \in FilterNames(q) : FlatValues(q2, k) = FlatValues(q, k)

C7_LinksKeepParameters ==
    Answered =>
        \A link \in Range(returned.next) \cup Range(returned.previous) :
            LinkKeepsParameters(link)

\* C8: on an unchanged store, a walk that starts at offset 0 and follows the next
\* links until a page has none has collected the full listing of its first
\* request, in order created descending then id descending, every row once.
C8_WalkCollectsListing ==
    (/\ Answered
     /\ returned.next = <<>>
     /\ ParamOffset(walk.origin.query) = 0
     /\ UnchangedStore)
    => \E plan \in Plans :
          LET listing == IF walk.origin.base = "/tickets"
                         THEN TicketListing(walk.origin.query, plan)
                         ELSE UserListing(walk.origin.query, plan)
          IN  walk.items = [n \in 1..Len(listing) |->
                               Serialised(walk.origin.base, listing[n])]

\* the whole listing of a request filtered on one fixed column with one value V
\* holds exactly the tickets whose column equals V
FixedFilterExact ==
    \A column \in {"status_id", "topic_id", "dept_id"} :
        (/\ request.base = "/tickets"
         /\ WholeListing
         /\ FilterNames(request.query) = {column}
         /\ Len(CommaSeparatedInts(request.query, column)) = 1)
        => LET V == CommaSeparatedInts(request.query, column)[1]
               expected == {t \in ost_ticket : t[column] = V}
           IN  /\ ItemIds = {t.ticket_id : t \in expected}
               /\ returned.total = Cardinality(expected)

\* C9: list_tickets filtered on one fixed column with one value V returns, over
\* the whole listing, exactly the tickets of the store it has read whose column
\* equals V, and total is their number.
C9_FixedFilterExact == TicketsAnswered => FixedFilterExact

\* C10: list_tickets with custom filters only returns a ticket if and only if, for
\* every filter name, the ticket has a value of the field of that name whose
\* decoded (displayed) value contains one of the filter's tokens.
DecodedMatch(t, q, field_name) ==
    \E fev \in AttributeRows(t.ticket_id) :
        /\ FieldName(fev) = field_name
        /\ \E j \in 1..Len(FlatValues(q, field_name)) :
              Contains(DisplayValue(fev.value).text, FlatValues(q, field_name)[j])

C10_CustomFilterIff ==
    (/\ request.base = "/tickets"
     /\ WholeListing
     /\ FilterNames(request.query) # {}
     /\ FilterNames(request.query) \cap known_params = {})
    => \A t \in ost_ticket :
          (t.ticket_id \in ItemIds)
            <=> \A k \in FilterNames(request.query) : DecodedMatch(t, request.query, k)

IsPaging(param) == param.k \in {"limit", "offset"}
IsFilter(param) == ~IsPaging(param)

\* the forms one filter with tokens A and B can be sent in: repeated, comma-joined,
\* both with a duplicate, and comma-joined with empty pieces
TokenForms(f, A, B) ==
    { <<Param(f, A), Param(f, B)>>,
      <<Param(f, A \o <<",">> \o B)>>,
      <<Param(f, A), Param(f, B \o <<",">> \o A)>>,
      <<Param(f, A \o <<",", ",">> \o B \o <<",">>)>> }

\* what a list_tickets answer selects: its status, its total and its items
Selection(resp) ==
    IF resp.status = 200 THEN <<200, resp.total, resp.items>> ELSE <<resp.status>>

\* the tokens of the custom filter of the request are the union of the values
\* sent, and the answer is one list_tickets gives, on the same store, to the
\* request with the filter sent in any other form
TokenUnion ==
    \A A, B \in {<<"a", "b">>, <<"c", "d">>} :
    \A form \in TokenForms("EFR", A, B) :
        (/\ request.base = "/tickets"
         /\ returned # NoResponse
         /\ SelectSeq(request.query, IsFilter) = form)
        => /\ {FlatValues(form, "EFR")[n] : n \in 1..Len(FlatValues(form, "EFR"))} = {A, B}
           /\ \A other \in TokenForms("EFR", A, B) :
              \E plan \in ListPlans(other) :
                 Selection(ListTicketsReturn(
                     [request EXCEPT !.query = other \o SelectSeq(request.query, IsPaging)],
                     plan))
                 = Selection(returned)

C12_NeverFails ==
    (/\ request.base = "/tickets"
     /\ returned # NoResponse
     /\ ParamsValid(request.query)
     /\ ~Malformed(request.query))
    => /\ returned.status = 200
       /\ (\E n \in 1..Len(CustomFieldKeys(request.query)) :
              \A ff \in ost_form_field : ff.name # CustomFieldKeys(request.query)[n])
          => returned.total = 0 /\ returned.items = <<>>

\* an item carries the custom-attribute map of its ticket: the key is present, and
\* the map is empty when the ticket has no extension values
CarriesMap(item) ==
    /\ "custom_fields" \in DOMAIN item
    /\ AttributeRows(item.ticket_id) = {} => DOMAIN item.custom_fields = {}

\* C13: every item list_tickets returns and the item get_ticket returns carries a
\* custom-attribute map, present and empty when the ticket has no extension values.
C13_ItemsCarryMap ==
    /\ (Answered /\ request.base = "/tickets")
          => \A n \in 1..Len(returned.items) : CarriesMap(returned.items[n])
    /\ (request.base = "/tickets/{ticket_id}" /\ returned.status = 200)
          => CarriesMap(returned.item)

\* a page holding a ticket without extension values next to one that has some
C13_Witness ==
    /\ Answered /\ request.base = "/tickets"
    /\ \E n, m \in 1..Len(returned.items) :
          /\ AttributeRows(returned.items[n].ticket_id) = {}
          /\ DOMAIN returned.items[n].custom_fields = {}
          /\ DOMAIN returned.items[m].custom_fields # {}

\* the stored values behind a displayed attribute of a ticket
StoredValues(ticket_id, name) ==
    {fev.value : fev \in {r \in AttributeRows(ticket_id) : FieldName(r) = name}}

\* the decoding rule in the spec's words: a value is displayed as a text or as a
\* parsed JSON value of its kind
DecodedAsSpecified(value) ==
    CASE value.kind = "invalid" -> [type |-> "str", text |-> value.text]
      [] value.kind = "object" /\ Len(value.members) > 0
            -> [type |-> "str", text |-> value.members[1].value]
      [] value.kind = "string" -> [type |-> "str", text |-> value.str]
      [] OTHER -> [type |-> value.kind, text |-> value.text]

DisplayedAsSpecified(item) ==
    \A name \in DOMAIN item.custom_fields :
        \E value \in StoredValues(item.ticket_id, name) :
            item.custom_fields[name] = DecodedAsSpecified(value)

\* C14: the value list_tickets and get_ticket display for a stored attribute value
\* is the value bound to the first key in insertion order when the stored text
\* parses to a non-empty object, the parsed value itself when it parses to
\* anything else, and the stored text unchanged when it does not parse.
C14_DisplayDecoding ==
    /\ (Answered /\ request.base = "/tickets")
          => \A n \in 1..Len(returned.items) : DisplayedAsSpecified(returned.items[n])
    /\ (request.base = "/tickets/{ticket_id}" /\ returned.status = 200)
          => DisplayedAsSpecified(returned.item)

\* get_ticket has returned a ticket whose value is an object with two members,
\* displayed as the value of the member written first
C14_Witness ==
    /\ request.base = "/tickets/{ticket_id}"
    /\ returned.status = 200
    /\ "EFR" \in DOMAIN returned.item.custom_fields
    /\ StoredValues(returned.item.ticket_id, "EFR") = {V_obj_multi}
    /\ returned.item.custom_fields["EFR"] = [type |-> "str", text |-> <<"a", "b">>]

\* the filter's own matching (LIKE with the token between wildcards) applied to
\* the value that is displayed for the stored value
DisplayedMatch(t, q, field_name) ==
    \E fev \in AttributeRows(t.ticket_id) :
        /\ FieldName(fev) = field_name
        /\ \E j \in 1..Len(FlatValues(q, field_name)) :
              Like(DisplayValue(fev.value).text, LikePattern(FlatValues(q, field_name)[j]))

\* C15: the value the filter predicate of list_tickets matches tokens against is
\* the value displayed for the same stored value, so a request with custom
\* filters only returns exactly the tickets whose displayed values match.
C15_FilterSeesDisplayedValue ==
    (/\ request.base = "/tickets"
     /\ WholeListing
     /\ FilterNames(request.query) # {}
     /\ FilterNames(request.query) \cap known_params = {})
    => \A t \in ost_ticket :
          (t.ticket_id \in ItemIds)
            <=> \A k \in FilterNames(request.query) : DisplayedMatch(t, request.query, k)

(***************************************************************************)
(* Number formatting: create_ticket called by one client, one call after   *)
(* the other, on deployments with different masks and counter values.      *)
(***************************************************************************)
Hashes(k) == Repeat("#", k)

FormatStore(mask, next) ==
    [config   |-> [ticket_sequence_id |-> <<>>, ticket_number_format |-> mask],
     sequence |-> (1 :> [name |-> "ticket_number", next |-> next])]

FormatStores ==
    { \* GCE-######, counter 1
      FormatStore(<< <<"G", "C", "E", "-">> \o Hashes(6) >>, 0),
      \* TICKET-%SEQ, counter 7
      FormatStore(<< <<"T", "I", "C", "K", "E", "T", "-">> \o SeqMarker >>, 6),
      \* no mask configured, next 0, as in test_create_and_get_ticket
      FormatStore(<<>>, 0),
      \* two runs of '#'
      FormatStore(<< <<"#", "-", "#", "#">> >>, 0),
      \* a counter that outgrows the run
      FormatStore(<< Hashes(2) >>, 98),
      \* date tokens and a run
      FormatStore(<< <<"%", "y", "%", "m", "-", "#">> >>, 0),
      \* a run and the bare marker
      FormatStore(<< Hashes(2) \o <<"-">> \o SeqMarker >>, 4) }

InitFormat ==
    /\ \E st \in FormatStores :
          /\ ost_config = st.config
          /\ ost_sequence = st.sequence
    /\ ost_user = {ExistingUser}
    /\ ost_ticket = {}
    /\ ost_thread = {}
    /\ ost_thread_entry = {}
    /\ auto_inc = [ticket |-> 0, thread |-> 0, entry |-> 0]
    /\ tx = [p \in Conns |-> EmptyTx]
    /\ conn_last_id = [p \in Conns |-> 0]
    /\ pc = [p \in Conns |-> "idle"]
    /\ loc = [p \in Conns |-> InitLoc]
    /\ calls_started = 0
    /\ log = <<>>
    /\ clock = 1
    /\ ost_user_email = {[id |-> 1, user_id |-> 1, address |-> <<"u", "1">>]}
    /\ ost_ticket_status = {[id |-> 1, name |-> "Open"]}
    /\ ost_form_field = {}
    /\ ost_form_entry = {}
    /\ ost_form_entry_values = {}
    /\ dialect = "mariadb"
    /\ request = NoRequest
    /\ response = NoResponse
    /\ walk = NoWalk
    /\ ost_api_key = ApiKeys
    /\ auth = Verified
    /\ InitElsewhere

NextFormat ==
    \/ Tick
    \/ \E ticket \in TicketInputs : create_ticket_Validate(1, ticket)
    \/ generate_ticket_number(1)
    \/ create_ticket_InsertTicket(1)
    \/ create_ticket_InsertThread(1)
    \/ create_ticket_InsertEntry(1)
    \/ create_ticket_Commit(1)
    \/ create_ticket_Fail(1)

SpecFormat == InitFormat /\ [][NextFormat]_vars

(***************************************************************************)
(* Properties of number formatting.                                        *)
(***************************************************************************)
\* _generate_ticket_number has returned on connection p and the call is not over
Generated(p) == pc[p] \in {"insert_ticket", "insert_thread", "insert_entry", "commit"}

\* the mask with the date tokens of one of the dates seen so far substituted
DatedMasks(mask) ==
    {ApplyReplacements(mask, DateReplacements(Dates[d]), 1) : d \in 1..clock}

\* the length of the run of '#' that starts at position i
RECURSIVE RunLength(_, _)
RunLength(mask, i) ==
    IF i > Len(mask) \/ mask[i] # "#" THEN 0 ELSE 1 + RunLength(mask, i + 1)

\* every run of '#' replaced by n left-padded with zeros to the run's length
RECURSIVE PadRunsFrom(_, _, _)
PadRunsFrom(mask, i, n) ==
    IF i > Len(mask) THEN <<>>
    ELSE IF mask[i] = "#"
         THEN ZFill(IntToText(n), RunLength(mask, i))
                \o PadRunsFrom(mask, i + RunLength(mask, i), n)
    ELSE <<mask[i]>> \o PadRunsFrom(mask, i + 1, n)

\* C16: for a mask that contains a run of k >= 1 '#' characters, the number
\* _generate_ticket_number returns is the mask with the run replaced by the
\* counter value left-padded with zeros to length k.
C16_HashRunPadded ==
    \A p \in Conns :
        (Generated(p) /\ Contains(loc[p].number_format, <<"#">>))
        => \E dated \in DatedMasks(loc[p].number_format) :
              loc[p].t_num = SubstituteSeq(PadRunsFrom(dated, 1, loc[p].next_seq),
                                           loc[p].next_seq)

\* C17: for a mask that holds the bare marker %SEQ, which is also the mask used
\* when none is configured, the returned number has the marker replaced by the
\* unpadded decimal counter value, and the counter value is the stored next
\* plus one.
C17_BareMarkerUnpadded ==
    \A p \in Conns :
        (Generated(p) /\ Contains(loc[p].number_format, SeqMarker))
        => /\ \A i \in ResolvedRows : loc[p].next_seq = ost_sequence[i].next + 1
           /\ \E dated \in DatedMasks(loc[p].number_format) :
                 loc[p].t_num = Replace(SubstituteHashes(dated, loc[p].next_seq),
                                        SeqMarker, IntToText(loc[p].next_seq))
           /\ ost_config.ticket_number_format = <<>>
                 => loc[p].t_num = IntToText(loc[p].next_seq)

\* mask TICKET-%SEQ with stored next 6: the call returned TICKET-7
C17_Witness ==
    /\ Generated(1)
    /\ ost_sequence[1].next = 6
    /\ loc[1].t_num = <<"T", "I", "C", "K", "E", "T", "-", "7">>

(***************************************************************************)
(* Properties of the lookups by identifier.                                *)
(***************************************************************************)
TicketFound(ticket_id) == \E t \in ost_ticket : t.ticket_id = ticket_id

\* C18: get_ticket(id) and get_user(id) answer 404 if and only if the store
\* holds no ticket, respectively no user, with that identifier; when the entity
\* exists they return it.
C18_NotFoundIffAbsent ==
    /\ (request.base = "/tickets/{ticket_id}" /\ returned # NoResponse)
       => /\ returned.status = 404 <=> ~TicketFound(request.path_id)
          /\ returned.status = 200 => returned.item.ticket_id = request.path_id
    /\ (request.base = "/users/{user_id}" /\ returned # NoResponse)
       => /\ returned.status = 404 <=> ~UserExists(request.path_id)
          /\ returned.status = 200 => returned.item.id = request.path_id

(***************************************************************************)
(* Authentication: a request arrives with an X-API-Key header, the         *)
(* dependency verify_token runs first, and the endpoint's handler runs     *)
(* only if it returned.                                                    *)
(***************************************************************************)
AuthRequests ==
    {[base |-> "/tickets", path_id |-> 0, query |-> <<>>],
     [base |-> "/users", path_id |-> 0, query |-> <<>>],
     [base |-> "/tickets/{ticket_id}", path_id |-> 1, query |-> <<>>],
     [base |-> "/users/{user_id}", path_id |-> 1, query |-> <<>>]}

InitAuth ==
    /\ \E st \in ListStores :
          /\ ost_user = st.users
          /\ ost_user_email = st.emails
          /\ ost_ticket_status = st.statuses
          /\ ost_ticket = st.tickets
          /\ ost_form_field = st.fields
          /\ ost_form_entry = st.entries
          /\ ost_form_entry_values = st.values
          /\ ost_thread = {[id |-> t.ticket_id, object_id |-> t.ticket_id,
                            object_type |-> "T"] : t \in st.tickets}
          /\ ost_thread_entry = {[id |-> t.ticket_id, thread_id |-> t.ticket_id,
                                  type |-> "M"] : t \in st.tickets}
          /\ auto_inc = [ticket |-> Cardinality(st.tickets),
                         thread |-> Cardinality(st.tickets),
                         entry |-> Cardinality(st.tickets)]
    /\ ost_config = [ticket_sequence_id |-> <<>>, ticket_number_format |-> <<>>]
    /\ ost_sequence = (1 :> [name |-> "ticket_number", next |-> 0])
    /\ tx = [p \in Conns |-> EmptyTx]
    /\ conn_last_id = [p \in Conns |-> 0]
    /\ pc = [p \in Conns |-> "idle"]
    /\ loc = [p \in Conns |-> InitLoc]
    /\ calls_started = 0
    /\ log = <<>>
    /\ clock = Len(Dates)
    /\ dialect = "mariadb"
    /\ request \in AuthRequests
    /\ response = NoResponse
    /\ walk = NoWalk
    /\ ost_api_key = ApiKeys
    /\ \E x_api_key \in SentKeys, client \in Clients :
          auth = Credentials(x_api_key, client)
    /\ InitElsewhere

\* the dependency looks the key up and returns or raises
verify_token ==
    /\ auth.status = 0
    /\ auth' = [auth EXCEPT !.status = Verdict(auth.x_api_key).status,
                            !.detail = Verdict(auth.x_api_key).detail]
    /\ UNCHANGED <<storeVars, createVars, clock, formVars, request, response, returned, walk>>

NextAuth ==
    \/ verify_token
    \/ list_tickets
    \/ list_users
    \/ get_ticket
    \/ get_user
    \/ \E ticket_id \in CloseIds : close_ticket(ticket_id)

SpecAuth == InitAuth /\ [][NextAuth]_vars

(***************************************************************************)
(* Properties of authentication.                                           *)
(***************************************************************************)
\* a handler has read the store (it answered) or written it (a ticket changed)
HandlerRan ==
    \/ returned # NoResponse
    \/ response # NoResponse
    \/ walk # NoWalk
    \/ ost_ticket \notin {st.tickets : st \in ListStores}

KeyUnknown == ApiKeyRows(auth.x_api_key) = {}

KeyInactive ==
    /\ ~KeyUnknown
    /\ \A k \in ApiKeyRows(auth.x_api_key) : k.isactive = 0

\* C19: the handler of a protected endpoint runs only if the X-API-Key value
\* exists in ost_api_key and is active; an unknown key is rejected with 401, an
\* inactive key with 403, and in both cases the handler reads and writes nothing.
C19_HandlerOnlyForActiveKey ==
    /\ (auth.status # 0 /\ KeyUnknown) => (auth.status = 401 /\ ~HandlerRan)
    /\ (auth.status # 0 /\ KeyInactive) => (auth.status = 403 /\ ~HandlerRan)
    /\ auth.status = 0 => ~HandlerRan
    /\ HandlerRan => (~KeyUnknown /\ ~KeyInactive)

\* the inactive key has been rejected
C19_Witness ==
    /\ auth.x_api_key = "my-inactive-key"
    /\ auth.status = 403
    /\ auth.detail = "API Key is not active"
    /\ response = NoResponse

\* the unknown key has been rejected, and an active key has let a handler answer
C19_Witness_Unknown == auth.x_api_key = "this-is-a-fake-key" /\ auth.status = 401

C19_Witness_Served == auth.x_api_key = "user-get-key" /\ returned.status = 200

\* C20: a request with an existing, active key whose ipaddr differs from the
\* client's address is rejected with 403 "IP address not allowed" and the
\* handler is not run.
C20_IpRestricted ==
    \A k \in ApiKeyRows(auth.x_api_key) :
        (auth.status # 0 /\ k.isactive = 1 /\ k.ipaddr # auth.client)
        => /\ auth.status = 403
           /\ auth.detail = "IP address not allowed"
           /\ ~HandlerRan

(***************************************************************************)
(* Failures and rollbacks: create_ticket called concurrently on a store    *)
(* that already holds one ticket, committed by an earlier call.            *)
(***************************************************************************)
\* the deployments of CreateStores with a configured sequence row and a mask
\* that embeds the counter: a run of '#', and a date token with the bare marker
RollbackStores ==
    {st \in CreateStores :
        /\ st.config.ticket_sequence_id # <<>>
        /\ st.config.ticket_sequence_id[1] \in DOMAIN st.sequence}

\* the sequence row a deployment's create_ticket advances
StoreRow(st) ==
    IF st.config.ticket_sequence_id = <<>> THEN 1 ELSE st.config.ticket_sequence_id[1]

\* the mask a deployment's create_ticket formats with
StoreMask(st) ==
    IF st.config.ticket_number_format = <<>> THEN SeqMarker
    ELSE st.config.ticket_number_format[1]

\* the ticket one successful create_ticket call has committed on a deployment
FirstTicket(st) ==
    [ticket_id |-> 1,
     number |-> FormatNumber(StoreMask(st), st.sequence[StoreRow(st)].next + 1, Dates[1]),
     user_id |-> 1, dept_id |-> 1, topic_id |-> 1, status_id |-> 1,
     created |-> 1, updated |-> 1, closed |-> <<>>]

InitRollback ==
    /\ \E st \in RollbackStores :
          /\ ost_config = st.config
          /\ ost_sequence = [st.sequence EXCEPT ![StoreRow(st)].next = @ + 1]
          /\ ost_ticket = {FirstTicket(st)}
    /\ ost_user = {ExistingUser}
    /\ ost_thread = {[id |-> 1, object_id |-> 1, object_type |-> "T"]}
    /\ ost_thread_entry = {[id |-> 1, thread_id |-> 1, type |-> "M"]}
    /\ auto_inc = [ticket |-> 1, thread |-> 1, entry |-> 1]
    /\ tx = [p \in Conns |-> EmptyTx]
    /\ conn_last_id = [p \in Conns |-> 0]
    /\ pc = [p \in Conns |-> "idle"]
    /\ loc = [p \in Conns |-> InitLoc]
    /\ calls_started = 0
    /\ log = <<>>
    /\ clock = 1
    /\ ost_user_email = {[id |-> 1, user_id |-> 1, address |-> <<"u", "1">>]}
    /\ ost_ticket_status = {[id |-> 1, name |-> "Open"]}
    /\ ost_form_field = {}
    /\ ost_form_entry = {}
    /\ ost_form_entry_values = {}
    /\ dialect = "mariadb"
    /\ request = NoRequest
    /\ response = NoResponse
    /\ walk = NoWalk
    /\ ost_api_key = ApiKeys
    /\ auth = Verified
    /\ InitElsewhere

NextRollback ==
    \/ Tick
    \/ \E p \in Conns, ticket \in TicketInputs : create_ticket_Validate(p, ticket)
    \/ \E p \in Conns : generate_ticket_number(p)
    \/ \E p \in Conns : create_ticket_InsertTicket(p)
    \/ \E p \in Conns : create_ticket_InsertThread(p)
    \/ \E p \in Conns : create_ticket_InsertEntry(p)
    \/ \E p \in Conns : create_ticket_Commit(p)
    \/ \E p \in Conns : create_ticket_Fail(p)

SpecRollback == InitRollback /\ [][NextRollback]_vars

(***************************************************************************)
(* Properties of failing calls.                                            *)
(***************************************************************************)
\* this step ends the call on connection p with HTTP 500
FailsOn(p) ==
    /\ InTransaction(p)
    /\ Len(log') = Len(log) + 1
    /\ log'[Len(log')].conn = p
    /\ log'[Len(log')].status = 500

\* the committed store holds whole tickets only: as many threads and thread
\* entries as tickets, and every resolved counter advanced once per ticket
WholeTicketsOnly ==
    /\ Cardinality(ost_thread) = Cardinality(ost_ticket)
    /\ Cardinality(ost_thread_entry) = Cardinality(ost_ticket)
    /\ \A i \in DOMAIN ost_sequence :
          ost_sequence[i].next =
              InitialStore.sequence[i].next
                + (IF i \in ResolvedRows THEN Cardinality(ost_ticket) ELSE 0)

\* C21: when a store statement of create_ticket fails after the owner check
\* (sequence advance, ticket, thread or thread-entry insert), the call ends with
\* HTTP 500 and the committed store is the store before the call, sequence
\* counter included: the failing step commits nothing, drops the call's writes
\* and locks, and the committed store never holds a part of a ticket.
C21_FailureRollsBack ==
    /\ [][\A p \in Conns :
            FailsOn(p) => /\ UNCHANGED storeVars
                          /\ tx'[p] = EmptyTx
                          /\ pc'[p] = "idle"]_vars
    /\ []WholeTicketsOnly

\* a call failed after its thread insert, with the counter advanced and a
\* ticket row written in its transaction, and nothing of it is committed
C21_Witness ==
    \E k \in 1..Len(log) :
        /\ log[k].status = 500
        /\ log[k].rows # {}
        /\ \A p \in Conns : pc[p] = "idle"
        /\ auto_inc.thread > Cardinality(ost_thread)
        /\ \A i \in log[k].rows : ost_sequence[i].next < log[k].next_seq

\* the counter values committed since the deployment was set up
CommittedCounters ==
    UNION {(InitialStore.sequence[i].next + 1)..ost_sequence[i].next : i \in ResolvedRows}

\* the committed tickets whose number embeds counter value n under the mask
TicketsEmbedding(n) ==
    LET numbers == {FormatNumber(NumberFormat, n, Dates[d]) : d \in 1..clock}
    IN  {t \in ost_ticket : t.number \in numbers}

\* C22: in any interleaving of create_ticket calls in which some calls fail and
\* roll back, a counter value embedded in the number of a committed ticket is
\* embedded in the number of no other committed ticket: every committed counter
\* value is embedded in the number of exactly one committed ticket.
C22_UniqueAcrossRollbacks ==
    MaskEmbedsCounter
    => \A n \in CommittedCounters : Cardinality(TicketsEmbedding(n)) = 1

\* a call advanced the counter and rolled back, the value it read was issued
\* again to a call that committed, next to the ticket committed earlier
C22_Witness ==
    /\ Cardinality(ost_ticket) = 2
    /\ \E k, j \in 1..Len(log) :
          /\ k < j
          /\ log[k].status = 500 /\ log[k].rows # {}
          /\ log[j].status = 200 /\ log[j].rows = log[k].rows
          /\ log[j].next_seq = log[k].next_seq

\* this step is the sequence advance of the call on connection p
Advances(p) ==
    /\ pc[p] = "advance"
    /\ pc'[p] = "insert_ticket"
    /\ DOMAIN tx'[p].seq # {}

\* the counter values received, before this step, from the rows p advances: by
\* finished calls with one of the given outcomes and by calls still open
ReceivedBefore(p, outcomes) ==
    {log[k].next_seq : k \in {k \in 1..Len(log) :
                                 /\ log[k].status \in outcomes
                                 /\ log[k].rows = DOMAIN tx'[p].seq}}
    \cup {loc[q].next_seq : q \in {q \in Conns \ {p} :
                                      /\ Generated(q)
                                      /\ DOMAIN tx[q].seq = DOMAIN tx'[p].seq}}

\* C23 as stated: counter values are issued monotonically; of any two
\* create_ticket calls that receive a counter value, the one that advances the
\* sequence later receives a strictly larger value.
C23_IssuedMonotonic ==
    [][\A p \in Conns :
          Advances(p) => \A n \in ReceivedBefore(p, {200, 500}) : n < loc'[p].next_seq]_vars

\* C23 as amended: a call that advances the sequence receives a value strictly
\* larger than the value of every earlier call on the same row that committed
\* or is still open (a value received by a call that rolled back is issued
\* again), and the counter values of committed tickets increase in the order
\* the calls committed.
C23_CommittedMonotonic ==
    /\ [][\A p \in Conns :
            Advances(p) => \A n \in ReceivedBefore(p, {200}) : n < loc'[p].next_seq]_vars
    /\ [](\A i, j \in Succeeded :
            (i < j /\ log[i].rows = log[j].rows /\ log[i].rows # {})
            => log[i].next_seq < log[j].next_seq)

\* a call committed and a later call has received a larger value from the same row
C23_Witness ==
    \E i \in Succeeded, p \in Conns :
        /\ Generated(p)
        /\ log[i].rows # {}
        /\ DOMAIN tx[p].seq = log[i].rows
        /\ loc[p].next_seq > log[i].next_seq

(***************************************************************************)
(* Properties of close_ticket.                                             *)
(***************************************************************************)
\* C24: after close_ticket(id) has returned {"status": "closed"} for an existing
\* ticket, the committed status_id of that ticket is 3 (and its closed
\* timestamp is set), which is what every later connection reads.
C24_ClosedIsCommitted ==
    \A t \in ost_ticket :
        t.ticket_id \in closes => (t.status_id = 3 /\ t.closed # <<>>)

\* an open ticket was closed and a later GET /tickets/{id} read status 3
C24_Witness ==
    /\ request.base = "/tickets/{ticket_id}"
    /\ request.path_id \in closes
    /\ returned.status = 200
    /\ returned.item.status_id = 3
    /\ \E t \in ost_ticket : t.ticket_id = request.path_id /\ t.closed = <<clock>>

(***************************************************************************)
(* add_attachment: one action up to the await of file.read(), then one per *)
(* store statement. Its transaction's                                      *)
(* writes are private until trans.commit(); AUTO_INCREMENT of ost_file is  *)
(* not transactional, and so is that of ost_attachment. A call may run    *)
(* while create_ticket runs on another connection; its INSERTs set the      *)
(* LAST_INSERT_ID of the connection it runs on, which a later call on that  *)
(* connection can read.                                                     *)
(***************************************************************************)
AttachIds == {1, 3, 5, 99}

\* file.filename of the upload
FileNames == {"test_attachment.txt", "other.bin"}

AttachRequests ==
    {[base |-> "/tickets/{ticket_id}/attach", path_id |-> id, query |-> <<>>,
      filename |-> name] :
        id \in AttachIds, name \in FileNames}

\* SELECT id FROM ost_thread WHERE object_id = :tid AND object_type = 'T'
TicketThreads(tid) ==
    {th \in ost_thread : th.object_id = tid /\ th.object_type = "T"}

\* SELECT id FROM ost_thread_entry WHERE thread_id = (...) ORDER BY id DESC
\* LIMIT 1, scalar(): the newest entry of the ticket's thread, <<>> for None
LatestEntry(tid) ==
    LET entries == {en \in ost_thread_entry :
                       \E th \in TicketThreads(tid) : en.thread_id = th.id}
    IN  IF entries = {} THEN <<>>
        ELSE << MaxOf({en.id : en \in entries}) >>

\* trans.rollback() and conn.close(): the writes are dropped, the
\* AUTO_INCREMENT values are used up, the connection is back in the pool
AttachRolledBack ==
    [NoAttach EXCEPT !.file_auto_inc = att.file_auto_inc,
                     !.attachment_auto_inc = att.attachment_auto_inc]

\* the variables of create_ticket an INSERT of add_attachment leaves alone
createLocals == <<auto_inc, tx, pc, loc, calls_started, log>>

AttachFailure ==
    [status |-> 500,
     detail |-> "An internal error occurred while processing the attachment."]

\* conn = engine.connect(), a connection of the pool no running call has
\* checked out; trans = conn.begin(); the handler then awaits file.read() and
\* yields to the event loop
add_attachment_Begin ==
    /\ Authorized
    /\ request.base = "/tickets/{ticket_id}/attach"
    /\ response = NoResponse
    /\ att.pc = "idle"
    /\ \E p \in Conns :
          /\ pc[p] = "idle"
          /\ att' = [att EXCEPT !.pc = "read", !.conn = p]
    /\ UNCHANGED <<storeVars, createVars, clock, readVars, ost_file, ost_file_chunk,
                   ost_attachment, closes, isolation, view, held, listVars>>

\* data = await file.read() has returned; INSERT INTO ost_file ... with
\* name = file.filename; fid = lastrowid, the LAST_INSERT_ID of the connection
add_attachment_InsertFile ==
    /\ att.pc = "read"
    /\ LET fid == att.file_auto_inc + 1
       IN  /\ att' = [att EXCEPT !.pc = "chunk", !.fid = fid, !.file_auto_inc = fid,
                                  !.files = {[id |-> fid, name |-> request.filename]}]
           /\ conn_last_id' = [conn_last_id EXCEPT ![att.conn] = fid]
    /\ UNCHANGED <<storeVars, createLocals, clock, readVars, ost_file, ost_file_chunk,
                   ost_attachment, closes, isolation, view, held, listVars>>

\* INSERT INTO ost_file_chunk (file_id, chunk_id, filedata) VALUES (:fid, 0, :d)
add_attachment_InsertChunk ==
    /\ att.pc = "chunk"
    /\ att' = [att EXCEPT !.pc = "attach",
                          !.chunks = {[file_id |-> att.fid, chunk_id |-> 0]}]
    /\ UNCHANGED <<storeVars, createVars, clock, readVars, ost_file, ost_file_chunk,
                   ost_attachment, closes, isolation, view, held, listVars>>

add_attachment_Attach_NoRollback ==
    /\ att.pc = "attach"
    /\ LET eid == LatestEntry(request.path_id)
       IN  IF eid = <<>> \/ Cardinality(TicketThreads(request.path_id)) > 1
           THEN /\ att' = AttachRolledBack
                /\ ost_file' = ost_file \cup att.files
                /\ ost_file_chunk' = ost_file_chunk \cup att.chunks
                /\ response' = AttachFailure
                /\ UNCHANGED conn_last_id
           ELSE /\ att' = [att EXCEPT !.pc = "commit",
                                      !.attachment_auto_inc = @ + 1,
                                      !.attachments = {[object_id |-> eid[1], type |-> "H",
                                                        file_id |-> att.fid]}]
                /\ conn_last_id' = [conn_last_id EXCEPT ![att.conn] =
                                       att.attachment_auto_inc + 1]
                /\ UNCHANGED <<ost_file, ost_file_chunk, response>>
    /\ UNCHANGED <<storeVars, createLocals, clock, readVars, ost_attachment, closes,
                   isolation, view, held, request,
                   returned, walk, auth>>

\* eid = the newest entry of the ticket's thread; INSERT INTO ost_attachment
\* (object_id, type, file_id) VALUES (:eid, 'H', :fid). Without a thread entry
\* eid is None and the insert raises (object_id is NOT NULL), as the subquery
\* does when the ticket has several threads: rollback, HTTP 500. The insert
\* that succeeds takes the next AUTO_INCREMENT id of ost_attachment, which
\* becomes the LAST_INSERT_ID of the connection.
add_attachment_Attach ==
    /\ att.pc = "attach"
    /\ LET eid == LatestEntry(request.path_id)
       IN  IF eid = <<>> \/ Cardinality(TicketThreads(request.path_id)) > 1
           THEN /\ att' = AttachRolledBack
                /\ response' = AttachFailure
                /\ UNCHANGED conn_last_id
           ELSE /\ att' = [att EXCEPT !.pc = "commit",
                                      !.attachment_auto_inc = @ + 1,
                                      !.attachments = {[object_id |-> eid[1], type |-> "H",
                                                        file_id |-> att.fid]}]
                /\ conn_last_id' = [conn_last_id EXCEPT ![att.conn] =
                                       att.attachment_auto_inc + 1]
                /\ UNCHANGED response
    /\ UNCHANGED <<storeVars, createLocals, clock, readVars, ost_file, ost_file_chunk,
                   ost_attachment, closes, isolation, view, held, request,
                   returned, walk, auth>>

\* trans.commit(); return {"file_id": fid}
add_attachment_Commit ==
    /\ att.pc = "commit"
    /\ ost_file' = ost_file \cup att.files
    /\ ost_file_chunk' = ost_file_chunk \cup att.chunks
    /\ ost_attachment' = ost_attachment \cup att.attachments
    /\ response' = [status |-> 200, file_id |-> att.fid]
    /\ att' = AttachRolledBack
    /\ UNCHANGED <<storeVars, createVars, clock, readVars, closes, isolation, view, held,
                   request, returned, walk, auth>>

\* file.read() or a store statement raises: except Exception ->
\* trans.rollback(), HTTP 500. The try block starts before the first statement,
\* so the call can also fail before INSERT INTO ost_file has handed out an id.
\* engine.connect() and conn.begin() are called before the try block: when one
\* of them raises nothing handles the exception and the server answers 500;
\* when it is conn.begin(), the connection acquired the line before is not
\* closed, neither except nor finally being reached.
add_attachment_Fail ==
    /\ \/ /\ att.pc \in {"read", "chunk", "attach", "commit"}
          /\ response' = AttachFailure
          /\ UNCHANGED held
       \/ /\ att.pc = "idle"
          /\ Authorized
          /\ request.base = "/tickets/{ticket_id}/attach"
          /\ response = NoResponse
          /\ response' = [status |-> 500]
          /\ \/ UNCHANGED held
             \/ held' = held \cup {"add_attachment"}
    /\ att' = AttachRolledBack
    /\ UNCHANGED <<storeVars, createVars, clock, readVars, ost_file, ost_file_chunk,
                   ost_attachment, closes, isolation, view, request,
                   returned, walk, auth>>

InitAttach ==
    /\ \E st \in ListStores :
          /\ ost_user = st.users
          /\ ost_user_email = st.emails
          /\ ost_ticket_status = st.statuses
          /\ ost_ticket = st.tickets
          /\ ost_form_field = st.fields
          /\ ost_form_entry = st.entries
          /\ ost_form_entry_values = st.values
          /\ ost_thread = {[id |-> t.ticket_id, object_id |-> t.ticket_id,
                            object_type |-> "T"] : t \in st.tickets}
          /\ ost_thread_entry = {[id |-> t.ticket_id, thread_id |-> t.ticket_id,
                                  type |-> "M"] : t \in st.tickets}
          /\ auto_inc = [ticket |-> Cardinality(st.tickets),
                         thread |-> Cardinality(st.tickets),
                         entry |-> Cardinality(st.tickets)]
    /\ ost_config = [ticket_sequence_id |-> <<>>, ticket_number_format |-> <<>>]
    /\ ost_sequence = (1 :> [name |-> "ticket_number", next |-> 0])
    /\ tx = [p \in Conns |-> EmptyTx]
    /\ conn_last_id = [p \in Conns |-> 0]
    /\ pc = [p \in Conns |-> "idle"]
    /\ loc = [p \in Conns |-> InitLoc]
    /\ calls_started = 0
    /\ log = <<>>
    /\ clock = Len(Dates)
    /\ dialect = "mariadb"
    /\ request \in AttachRequests
    /\ response = NoResponse
    /\ walk = NoWalk
    /\ ost_api_key = ApiKeys
    /\ auth = Verified
    /\ InitElsewhere

NextAttach ==
    \/ add_attachment_Begin
    \/ add_attachment_InsertFile
    \/ add_attachment_InsertChunk
    \/ add_attachment_Attach
    \/ add_attachment_Commit
    \/ add_attachment_Fail
    \/ \E ticket \in TicketInputs : create_ticket_Validate(1, ticket)
    \/ generate_ticket_number(1)
    \/ create_ticket_InsertTicket(1)
    \/ create_ticket_InsertThread(1)
    \/ create_ticket_InsertEntry(1)
    \/ create_ticket_Commit(1)
    \/ create_ticket_Fail(1)

SpecAttach == InitAttach /\ [][NextAttach]_vars

(***************************************************************************)
(* Properties of add_attachment.                                           *)
(***************************************************************************)
AttachAnswered ==
    /\ request.base = "/tickets/{ticket_id}/attach"
    /\ response # NoResponse

\* C25: add_attachment for a ticket id that has no ticket (no thread entry to
\* attach to) fails with HTTP 500 and its transaction is rolled back: no
\* ost_file, ost_file_chunk or ost_attachment row of the call is committed.
C25_AttachToMissingTicket ==
    (AttachAnswered /\ ~TicketFound(request.path_id))
    => /\ response.status = 500
       /\ ost_file = {} /\ ost_file_chunk = {} /\ ost_attachment = {}
       /\ att.files = {} /\ att.chunks = {} /\ att.attachments = {}

\* the call for the missing ticket failed at the attachment insert, after it had
\* inserted its file row and chunk
C25_Witness ==
    /\ AttachAnswered
    /\ request.path_id = 99
    /\ response.status = 500
    /\ att.file_auto_inc = 1
    /\ ost_file = {}

(***************************************************************************)
(* Properties of the previous link.                                        *)
(***************************************************************************)
\* the offset a continuation link carries
LinkOffset(link) == ParamOffset(ParseQuery(link.qs))

\* C26: whenever a previous link is present (offset > 0) its offset is
\* max(0, offset - limit), never negative; so the previous link of the page
\* reached by a page's next link carries that page's offset.
C26_PreviousOffset ==
    Answered
    => LET offset == ParamOffset(request.query)
           limit  == ParamLimit(request.query)
       IN  /\ returned.previous # <<>>
              => /\ offset > 0
                 /\ HasKey(ParseQuery(returned.previous[1].qs), "offset")
                 /\ LinkOffset(returned.previous[1]) >= 0
                 /\ LinkOffset(returned.previous[1])
                        = (IF offset > limit THEN offset - limit ELSE 0)
           /\ walk.pages = 2
              => /\ returned.previous # <<>>
                 /\ LinkOffset(returned.previous[1]) = ParamOffset(walk.origin.query)

\* a walk started at an offset below the limit, where the previous offset was
\* cut at 0, followed the next link, and the page reached points back to the
\* offset it started at
C26_Witness ==
    /\ Answered
    /\ walk.pages = 2
    /\ ParamOffset(walk.origin.query) > 0
    /\ ParamOffset(walk.origin.query) < ParamLimit(walk.origin.query)
    /\ returned.previous # <<>>
    /\ LinkOffset(returned.previous[1]) = ParamOffset(walk.origin.query)

(***************************************************************************)
(* list_tickets statement by statement, next to concurrent writers. The    *)
(* handler runs its count query and its page query on one connection       *)
(* without committing in between, so both belong to one transaction. At    *)
(* REPEATABLE READ (the server default) the transaction reads the snapshot *)
(* its first query established; at READ COMMITTED every statement reads    *)
(* the store as committed when it runs. The code sets no isolation level.  *)
(***************************************************************************)
IsolationLevels == {"REPEATABLE READ", "READ COMMITTED"}

SnapshotRequests ==
    {[base |-> "/tickets", path_id |-> 0, query |-> f] :
        f \in {<<>>, <<Param("status_id", <<"1">>)>>}}

\* total_records = conn.execute(count_sql).scalar(): the transaction's first
\* read; view.seen is what the snapshot taken here answers
list_tickets_Count ==
    /\ Authorized
    /\ request.base = "/tickets"
    /\ response = NoResponse
    /\ view.phase = "none"
    /\ \E plan \in ListPlans(request.query) :
          view' = [phase |-> "counted", seen |-> ListTicketsReturn(request, plan)]
    /\ UNCHANGED <<storeVars, createVars, clock, readVars, attachVars, closes, isolation,
                   held, listVars>>

\* what the handler returns when its page query reads the store as it is now
\* and its count query read the store as it was
AcrossStates(seen, now) ==
    IF seen.status # 200 THEN seen
    ELSE IF now.status # 200 THEN now
    ELSE [seen EXCEPT !.items = now.items]

list_tickets_Page_Always(level) ==
    /\ view.phase = "counted"
    /\ \E plan \in ListPlans(request.query) :
          LET now == ListTicketsReturn(request, plan)
              ret == AcrossStates(view.seen, now)
          IN  /\ returned' = ret
              /\ response' = ListingAnswer("/tickets", ret)
              /\ view' = [phase |-> "done", seen |-> view.seen, now |-> now]
    /\ UNCHANGED <<storeVars, createVars, clock, readVars, attachVars, closes, isolation,
                   held, request, walk, auth>>

\* results = conn.execute(data_sql) and the custom-field query, then the
\* envelope: total and links from the count, items from the page query
list_tickets_Page(level) ==
    /\ view.phase = "counted"
    /\ \E plan \in ListPlans(request.query) :
          LET now == ListTicketsReturn(request, plan)
              ret == IF level = "REPEATABLE READ" THEN view.seen
                     ELSE AcrossStates(view.seen, now)
          IN  /\ returned' = ret
              /\ response' = ListingAnswer("/tickets", ret)
              /\ view' = [phase |-> "done", seen |-> view.seen, now |-> now]
    /\ UNCHANGED <<storeVars, createVars, clock, readVars, attachVars, closes, isolation,
                   held, request, walk, auth>>

InitSnapshot ==
    /\ \E st \in ListStores :
          /\ ost_user = st.users
          /\ ost_user_email = st.emails
          /\ ost_ticket_status = st.statuses
          /\ ost_ticket = st.tickets
          /\ ost_form_field = st.fields
          /\ ost_form_entry = st.entries
          /\ ost_form_entry_values = st.values
          /\ ost_thread = {[id |-> t.ticket_id, object_id |-> t.ticket_id,
                            object_type |-> "T"] : t \in st.tickets}
          /\ ost_thread_entry = {[id |-> t.ticket_id, thread_id |-> t.ticket_id,
                                  type |-> "M"] : t \in st.tickets}
          /\ auto_inc = [ticket |-> Cardinality(st.tickets),
                         thread |-> Cardinality(st.tickets),
                         entry |-> Cardinality(st.tickets)]
    /\ ost_config = [ticket_sequence_id |-> <<>>, ticket_number_format |-> <<>>]
    /\ ost_sequence = (1 :> [name |-> "ticket_number", next |-> 0])
    /\ tx = [p \in Conns |-> EmptyTx]
    /\ conn_last_id = [p \in Conns |-> 0]
    /\ pc = [p \in Conns |-> "idle"]
    /\ loc = [p \in Conns |-> InitLoc]
    /\ calls_started = 0
    /\ log = <<>>
    /\ clock = Len(Dates)
    /\ dialect = "mariadb"
    /\ request \in SnapshotRequests
    /\ response = NoResponse
    /\ walk = NoWalk
    /\ ost_api_key = ApiKeys
    /\ auth = Verified
    /\ closes = {}
    /\ ost_file = {}
    /\ ost_file_chunk = {}
    /\ ost_attachment = {}
    /\ att = NoAttach
    /\ isolation \in IsolationLevels
    /\ view = NoView
    /\ held = {}
    /\ returned = NoResponse

NextSnapshot ==
    \/ list_tickets_Count
    \/ list_tickets_Page(isolation)
    \/ \E ticket \in TicketInputs : create_ticket_Validate(1, ticket)
    \/ generate_ticket_number(1)
    \/ create_ticket_InsertTicket(1)
    \/ create_ticket_InsertThread(1)
    \/ create_ticket_InsertEntry(1)
    \/ create_ticket_Commit(1)
    \/ create_ticket_Fail(1)

SpecSnapshot == InitSnapshot /\ [][NextSnapshot]_vars

(***************************************************************************)
(* Properties of a listing next to writers.                                *)
(***************************************************************************)
\* the answer is the answer of one store state: the one the count query read
\* or the one the page query read
OneStateAnswer == returned \in {view.seen, view.now}

\* C27 as stated: the total and the items list_tickets returns reflect the same
\* store state; a ticket committed between the count query and the page query
\* is never visible to one of the two queries and not to the other.
C27_TotalAndItemsAgree ==
    view.phase = "done" => OneStateAnswer

\* C27 as amended: the same, when the server runs the handler's transaction at
\* REPEATABLE READ.
C27_AgreeAtRepeatableRead ==
    (view.phase = "done" /\ isolation = "REPEATABLE READ") => OneStateAnswer

\* at REPEATABLE READ a writer committed between the two queries and the
\* answer is the one of the store before it, total and items alike
C27_Witness ==
    /\ view.phase = "done"
    /\ isolation = "REPEATABLE READ"
    /\ returned.status = 200
    /\ view.now.status = 200
    /\ view.now.total # view.seen.total
    /\ view.now.items # view.seen.items
    /\ returned = view.seen

(***************************************************************************)
(* Listings over stores in which a join of the listing queries finds       *)
(* several rows for one entity: a user with two rows in ost_user_email, a  *)
(* ticket with two form entries whose values match the same filter, both   *)
(* at once, and a ticket with two different values of one field name. The  *)
(* schema allows all of them (osTicket keeps every address of a user, and  *)
(* one form entry per form attached to a ticket).                          *)
(***************************************************************************)
JoinStores ==
    { \* user 1 has two addresses
      [users    |-> ListedUsers,
       emails   |-> ListedEmails \cup {[id |-> 5, user_id |-> 1, address |-> <<"e", "@", "x">>]},
       statuses |-> {[id |-> 1, name |-> "Open"]},
       tickets  |-> {TicketRow(1, 1, 1, 1, 1, 1), TicketRow(2, 2, 1, 1, 1, 2)},
       fields   |-> {}, entries |-> {}, values |-> {}],
      \* ticket 1 has two form entries, each with a value of field "EFR"
      [users    |-> ListedUsers, emails |-> ListedEmails,
       statuses |-> {[id |-> 1, name |-> "Open"]},
       tickets  |-> {TicketRow(1, 1, 1, 1, 1, 1), TicketRow(2, 2, 1, 1, 1, 2)},
       fields   |-> {[id |-> 1, name |-> "EFR"]},
       entries  |-> {[id |-> 1, object_id |-> 1, object_type |-> "T"],
                     [id |-> 2, object_id |-> 1, object_type |-> "T"],
                     [id |-> 3, object_id |-> 2, object_type |-> "T"]},
       values   |-> {[entry_id |-> 1, field_id |-> 1, value |-> V_obj_ab],
                     [entry_id |-> 2, field_id |-> 1, value |-> V_obj_ab],
                     [entry_id |-> 3, field_id |-> 1, value |-> V_obj_cd]}],
      \* both: user 1 has two addresses and ticket 1 two matching values
      [users    |-> ListedUsers,
       emails   |-> ListedEmails \cup {[id |-> 5, user_id |-> 1, address |-> <<"e", "@", "x">>]},
       statuses |-> {[id |-> 1, name |-> "Open"]},
       tickets  |-> {TicketRow(1, 1, 1, 1, 1, 1), TicketRow(2, 2, 1, 1, 1, 2)},
       fields   |-> {[id |-> 1, name |-> "EFR"]},
       entries  |-> {[id |-> 1, object_id |-> 1, object_type |-> "T"],
                     [id |-> 2, object_id |-> 1, object_type |-> "T"]},
       values   |-> {[entry_id |-> 1, field_id |-> 1, value |-> V_obj_ab],
                     [entry_id |-> 2, field_id |-> 1, value |-> V_obj_ab]}],
      \* ticket 1 has two form entries with different values of field "order_id"
      [users    |-> ListedUsers, emails |-> ListedEmails,
       statuses |-> {[id |-> 1, name |-> "Open"]},
       tickets  |-> {TicketRow(1, 1, 1, 1, 1, 1), TicketRow(2, 2, 1, 1, 1, 2)},
       fields   |-> {[id |-> 1, name |-> "order_id"]},
       entries  |-> {[id |-> 1, object_id |-> 1, object_type |-> "T"],
                     [id |-> 2, object_id |-> 1, object_type |-> "T"]},
       values   |-> {[entry_id |-> 1, field_id |-> 1, value |-> V_obj_ab],
                     [entry_id |-> 2, field_id |-> 1, value |-> V_obj_cd]}] }

JoinRequests ==
    {[base |-> "/tickets", path_id |-> 0, query |-> f \o l \o o] :
        f \in {<<>>, <<Param("EFR", <<"a", "b">>)>>},
        l \in {<<>>, <<Param("limit", <<"1">>)>>, <<Param("limit", <<"2">>)>>},
        o \in {<<>>, <<Param("offset", <<"1">>)>>}}
    \cup
    {[base |-> "/users", path_id |-> 0, query |-> f \o l \o o] :
        f \in {<<>>, <<Param("email", <<"a", "@", "x">>)>>},
        l \in {<<>>, <<Param("limit", <<"1">>)>>, <<Param("limit", <<"2">>)>>},
        o \in {<<>>, <<Param("offset", <<"1">>)>>}}
    \cup
    {[base |-> b, path_id |-> 1, query |-> <<>>] :
        b \in {"/tickets/{ticket_id}", "/users/{user_id}"}}

InitJoin ==
    /\ \E st \in JoinStores :
          /\ ost_user = st.users
          /\ ost_user_email = st.emails
          /\ ost_ticket_status = st.statuses
          /\ ost_ticket = st.tickets
          /\ ost_form_field = st.fields
          /\ ost_form_entry = st.entries
          /\ ost_form_entry_values = st.values
          /\ ost_thread = {[id |-> t.ticket_id, object_id |-> t.ticket_id,
                            object_type |-> "T"] : t \in st.tickets}
          /\ ost_thread_entry = {[id |-> t.ticket_id, thread_id |-> t.ticket_id,
                                  type |-> "M"] : t \in st.tickets}
          /\ auto_inc = [ticket |-> Cardinality(st.tickets),
                         thread |-> Cardinality(st.tickets),
                         entry |-> Cardinality(st.tickets)]
    /\ ost_config = [ticket_sequence_id |-> <<>>, ticket_number_format |-> <<>>]
    /\ ost_sequence = (1 :> [name |-> "ticket_number", next |-> 0])
    /\ tx = [p \in Conns |-> EmptyTx]
    /\ conn_last_id = [p \in Conns |-> 0]
    /\ pc = [p \in Conns |-> "idle"]
    /\ loc = [p \in Conns |-> InitLoc]
    /\ calls_started = 0
    /\ log = <<>>
    /\ clock = Len(Dates)
    /\ dialect \in {"mysql", "mariadb"}
    /\ request \in JoinRequests
    /\ response = NoResponse
    /\ walk = NoWalk
    /\ ost_api_key = ApiKeys
    /\ auth = Verified
    /\ InitElsewhere

NextJoin ==
    \/ list_tickets
    \/ list_users
    \/ get_ticket
    \/ get_user
    \/ FollowNext

SpecJoin == InitJoin /\ [][NextJoin]_vars

(***************************************************************************)
(* Properties of listings over such stores.                                *)
(***************************************************************************)
\* the identifier of the entity an item of a listing stands for
EntityId(item) == IF request.base = "/tickets" THEN item.ticket_id ELSE item.id

EntityIds == {EntityId(returned.items[n]) : n \in 1..Len(returned.items)}

\* C28: each entity matching the active filter appears exactly once in the full
\* listing and is counted exactly once in total, for list_tickets and
\* list_users, also when a ticket has several extension values matching the same
\* custom filter or when the owning user has several email rows.
C28_EachEntityOnce ==
    WholeListing =>
        /\ \A i, j \in 1..Len(returned.items) :
              i # j => EntityId(returned.items[i]) # EntityId(returned.items[j])
        /\ returned.total = Cardinality(EntityIds)

(***************************************************************************)
(* health_check and the connections handlers hold. Every other handler     *)
(* acquires its connection in a with block or closes it in a finally       *)
(* clause, so its connection is back in the pool when its action ends;     *)
(* add_attachment acquires its connection one line before its try block    *)
(* and keeps it when conn.begin() raises;                                  *)
(* health_check closes its connection on the normal path only. held is the *)
(* set of handlers that finished without closing a connection they had     *)
(* acquired.                                                               *)
(***************************************************************************)
HealthRequest == [base |-> "/health", path_id |-> 0, query |-> <<>>]

HealthOutcomes == {"ok", "connect raises", "execute raises"}

HealthOk == [status |-> 200, body |-> [status |-> "ok", database |-> "ok"]]

\* the detail also carries str(e) of the exception
HealthError == [status |-> 503, detail |-> [status |-> "error", database |-> "error"]]

\* GET /health: conn = engine.connect(); conn.execute(SELECT 1); conn.close();
\* except Exception -> HTTP 503. conn.close() is skipped when execute raises.
health_check(outcome) ==
    /\ request.base = "/health"
    /\ response = NoResponse
    /\ response' = IF outcome = "ok" THEN HealthOk ELSE HealthError
    /\ held' = IF outcome = "execute raises" THEN held \cup {"health_check"} ELSE held
    /\ UNCHANGED <<storeVars, createVars, clock, readVars, attachVars, closes, isolation,
                   view, request, returned, walk, auth>>

InitHealth ==
    /\ \E st \in ListStores :
          /\ ost_user = st.users
          /\ ost_user_email = st.emails
          /\ ost_ticket_status = st.statuses
          /\ ost_ticket = st.tickets
          /\ ost_form_field = st.fields
          /\ ost_form_entry = st.entries
          /\ ost_form_entry_values = st.values
          /\ ost_thread = {[id |-> t.ticket_id, object_id |-> t.ticket_id,
                            object_type |-> "T"] : t \in st.tickets}
          /\ ost_thread_entry = {[id |-> t.ticket_id, thread_id |-> t.ticket_id,
                                  type |-> "M"] : t \in st.tickets}
          /\ auto_inc = [ticket |-> Cardinality(st.tickets),
                         thread |-> Cardinality(st.tickets),
                         entry |-> Cardinality(st.tickets)]
    /\ ost_config = [ticket_sequence_id |-> <<>>, ticket_number_format |-> <<>>]
    /\ ost_sequence = (1 :> [name |-> "ticket_number", next |-> 0])
    /\ tx = [p \in Conns |-> EmptyTx]
    /\ conn_last_id = [p \in Conns |-> 0]
    /\ pc = [p \in Conns |-> "idle"]
    /\ loc = [p \in Conns |-> InitLoc]
    /\ calls_started = 0
    /\ log = <<>>
    /\ clock = Len(Dates)
    /\ dialect = "mariadb"
    /\ request \in {HealthRequest} \cup AttachRequests
    /\ response = NoResponse
    /\ walk = NoWalk
    /\ ost_api_key = ApiKeys
    /\ auth = Verified
    /\ InitElsewhere

NextHealth ==
    \/ \E outcome \in HealthOutcomes : health_check(outcome)
    \/ add_attachment_Begin
    \/ add_attachment_InsertFile
    \/ add_attachment_InsertChunk
    \/ add_attachment_Attach
    \/ add_attachment_Commit
    \/ add_attachment_Fail
    \/ \E ticket_id \in CloseIds : close_ticket(ticket_id)
    \/ \E ticket \in TicketInputs : create_ticket_Validate(1, ticket)
    \/ generate_ticket_number(1)
    \/ create_ticket_InsertTicket(1)
    \/ create_ticket_InsertThread(1)
    \/ create_ticket_InsertEntry(1)
    \/ create_ticket_Commit(1)
    \/ create_ticket_Fail(1)

SpecHealth == InitHealth /\ [][NextHealth]_vars

(***************************************************************************)
(* Properties of the handlers' connections.                                *)
(***************************************************************************)
\* a transaction of add_attachment is open: it has writes not yet committed
\* or rolled back
AttachOpen == att.files # {} \/ att.chunks # {} \/ att.attachments # {}

\* C29: every handler returns the connection it acquired from the pool on every
\* path, normal return or error: after any handler finishes, it holds no open
\* connection and no open transaction.
C29_ConnectionsReturned ==
    /\ held = {}
    /\ \A p \in Conns : pc[p] = "idle" => tx[p] = EmptyTx
    /\ response # NoResponse => ~AttachOpen

(***************************************************************************)
(* Concurrent create_ticket calls under fair scheduling: a call that has   *)
(* begun its transaction keeps executing its next statement whenever the   *)
(* store lets it (each call runs on a thread of its own, and the store     *)
(* grants a released row lock to a waiter). No fairness is assumed for     *)
(* failures or for clients making calls.                                   *)
(***************************************************************************)
\* the next statement of the call on connection p, when it does not raise
Proceed(p) ==
    \/ generate_ticket_number(p)
    \/ create_ticket_InsertTicket(p)
    \/ create_ticket_InsertThread(p)
    \/ create_ticket_InsertEntry(p)
    \/ create_ticket_Commit(p)

\* the next statement of the call on connection p can run: ENABLED Proceed(p),
\* written out from the guards of its disjuncts
CanProceed(p) ==
    \/ pc[p] = "advance" /\ SequenceRowsFree(p, SequenceRows(loc[p].seq_name))
    \/ pc[p] \in {"insert_ticket", "insert_thread", "insert_entry", "commit"}

\* weak fairness of Proceed(p), WF_vars(Proceed(p)), with its ENABLED written
\* as CanProceed(p)
FairProceed(p) == ([]<>~CanProceed(p)) \/ ([]<><<Proceed(p)>>_vars)

\* the store whose mask P-## numbers tickets from sequence row 2
InitFair == InitRollback /\ ost_config.ticket_sequence_id = <<2>>

SpecFair ==
    /\ InitFair
    /\ [][NextRollback]_vars
    /\ \A p \in Conns : FairProceed(p)

(***************************************************************************)
(* Properties of contending calls.                                         *)
(***************************************************************************)
\* the call on connection p is at its UPDATE of ost_sequence and another
\* transaction holds a row the UPDATE touches
Waiting(p) ==
    /\ pc[p] = "advance"
    /\ ~SequenceRowsFree(p, SequenceRows(loc[p].seq_name))

\* the connections whose transaction holds a row the call on p waits for
Holders(p) ==
    {q \in Conns \ {p} : DOMAIN tx[q].seq \cap SequenceRows(loc[p].seq_name) # {}}

\* a waiting call waits for a call that is running and is not itself waiting
NoDeadlock ==
    \A p \in Conns : Waiting(p) => \A q \in Holders(p) : InTransaction(q) /\ ~Waiting(q)

\* C30: under fair scheduling every create_ticket call eventually finishes with
\* a commit or a rollback when calls contend for the same sequence row: a
\* waiting caller is released when the holder commits or rolls back, and no
\* deadlock is reachable.
C30_EveryCallFinishes ==
    /\ \A p \in Conns : (pc[p] # "idle") ~> (pc[p] = "idle" /\ tx[p] = EmptyTx)
    /\ \A p \in Conns : Waiting(p) ~> ~Waiting(p)
    /\ []NoDeadlock

\* a call waits at the sequence row while the call holding it is about to commit
C30_Witness ==
    \E p \in Conns : \E q \in Holders(p) : Waiting(p) /\ pc[q] = "commit"

====
